---- MODULE Spec2Model ----
(***************************************************************************)
(* Model of the actuator link (motion_control/arduino_controller.py,       *)
(* class ArduinoController) used from several threads, as it is in         *)
(* motion_control/consumers.py (websocket handler thread plus monitoring   *)
(* thread) and motion_control/views.py (HTTP handler closing the channel). *)
(*                                                                         *)
(* The link has no lock.  Every step below contains at most one access to  *)
(* the link's shared attributes (self.connection, self.port,               *)
(* self._is_connected) or one call on the serial channel, so that the      *)
(* interleavings of the threads are the interleavings of those accesses.   *)
(*                                                                         *)
(* The connection registry (motion_control/connection_manager.py, class    *)
(* ConnectionManager) is modelled beside it, with its own specification    *)
(* SpecRegistry: its dictionary is changed under self._data_lock, its      *)
(* records are objects that the dictionary and its copies share, and its   *)
(* listener list is read and changed without a lock.                       *)
(***************************************************************************)
EXTENDS Integers, Sequences, FiniteSets, TLC

\* ------------------------------------------------------------------ bounds
\* Total number of link operations called in one behaviour.
MaxOps == 2
\* Total number of registry operations called in one behaviour.
MaxRegOps == 3
\* Number of ticks a monitoring loop takes in one behaviour.
MaxTicks == 4

\* ------------------------------------------------------- program constants
\* self.connection = None (no channel object)
NoChannel == 0
\* timeout: float = 1.0, the channel's configured read timeout
DefaultTimeout == 1
\* speed range upper end, angle range upper end
MaxSpeed == 255
MaxAngle == 180
\* dict.get(port) when the port is absent: None (no record object)
NoRecord == 0
\* threading.Lock() that nobody holds
NoHolder == "free"
\* _instance = None (no registry object); the one object __new__ creates
NoInstance == 0
TheInstance == 1
\* Accelerations are in hundredths: "accel_change > 0.5" and
\* "accel_change > 0.2" of get_acceleration_factor.
AbruptThreshold == 50
ModerateThreshold == 20
\* factor = accel_change * 10
FactorScale == 10
\* self.arduino_controller.send_command(speed=100, angle=105)
DispatchSpeed == 100
DispatchAngle == 105
\* {}: the dictionary without keys
EmptyMap == [p \in {} |-> NoRecord]

\* ------------------------------------------------------------------ inputs
\* The two threads that share one link.
Threads == {"ws", "mon"}
\* Port arguments of connect(); "" is the port that is None or empty.
Ports == {"", "COM3"}
\* (speed, angle) arguments of send_command: both ends of both ranges and
\* the first value outside each end.
SendArgs == { <<0, 180>>, <<255, 0>>, <<256, 0>>, <<-1, 0>>, <<0, 181>>, <<0, -1>> }
\* Arguments of send_raw_command, as character sequences.
RawArgs == { <<"f">>, <<"b", "\n">> }
\* timeout argument of read_response: <<>> is None, <<x>> is the value x.
TimeoutArgs == { <<>>, <<5>> }
\* Ports that registry calls name.
RegPorts == {"COM3", "COM4"}
\* (port, motor_number) arguments of register_connection.
RegisterArgs == { <<"COM3", 1>>, <<"COM3", 2>>, <<"COM4", 1>> }
\* Port argument of the update_* calls and of get_connection.
UpdatePorts == {"COM3"}
\* position argument of update_motor_position.
Positions == {"left"}
\* command argument of update_last_command.
Commands == {"cmd"}
\* Telemetry, as get_physics_data() returns it.  A value that may be None
\* is <<>> for None and <<v>> for the value v.
\* physics_data.get('gear'): missing, or one of three gears.
Gears == { <<>>, <<1>>, <<2>>, <<3>> }
\* physics_data.get('accG'): missing, or its longitudinal component, in
\* hundredths; the differences of the values include 20, 21, 50 and 51.
AccGs == { <<>>, <<0>>, <<20>>, <<50>>, <<71>> }
\* physics_data['gas'], in hundredths.
Gases == {0, 10, 30, 40}
\* What one read of the telemetry returns in monitor_gear_changes, which
\* uses gear and accG only, and in start_monitoring.
GearSamples == [gear : Gears, accG : AccGs, gas : {0}]
DumpSamples == [gear : {<<1>>}, accG : {<<0>>}, gas : Gases]
\* What send_command(100, 105) does to its caller: it returns True or
\* False, or it raises (is_connected() is called outside the try, line 164,
\* and raises when another thread disconnects the link during the call).
SendOutcomes == {"True", "False", "raise"}
\* Every pair of arguments that send_command accepts: "speed: Motor speed
\* (0-255), angle: Servo angle (0-180)".
ValidSendArgs == (0..MaxSpeed) \X (0..MaxAngle)
\* The callbacks given to add_listener: one that returns and one that raises.
Listeners == {"l_ok", "l_raise"}

VARIABLES
    connection,      \* self.connection: NoChannel or the index of a channel
    port,            \* self.port: "" is None
    is_connected_flag, \* self._is_connected
    chans,           \* the serial channels opened so far, in order of opening
    thr,             \* per thread: position, arguments, locals and result
    ops              \* number of operations called so far

\* The connection registry (motion_control/connection_manager.py, class
\* ConnectionManager), called from several threads.
VARIABLES
    _connections,    \* self._connections: port -> reference of its record
    recs,            \* the record objects created so far; a reference is an index
    _listeners,      \* self._listeners, in list order
    _data_lock,      \* self._data_lock: NoHolder or the thread inside a with block
    clock,           \* what the next datetime.now() returns
    rthr,            \* per thread: position, arguments, locals and result
    rops,            \* number of registry operations called so far
    _instance,       \* ConnectionManager._instance: NoInstance or the object
    _initialized,    \* self._initialized of that object: "absent" before it is set
    _lock            \* ConnectionManager._lock: NoHolder or the thread holding it

\* The telemetry monitor (motion_control/assetto_physics.py, class
\* AssettoPhysics), one thread running one of its loops.
VARIABLES
    mon              \* the monitor's attributes, its position in the loop, the
                     \* tick's locals and a record of the tick and the one before

linkVars == <<connection, port, is_connected_flag, chans, thr, ops>>
regVars == <<_connections, recs, _listeners, _data_lock, clock, rthr, rops>>
clsVars == <<_instance, _initialized, _lock>>
vars == <<connection, port, is_connected_flag, chans, thr, ops,
          _connections, recs, _listeners, _data_lock, clock, rthr, rops,
          _instance, _initialized, _lock, mon>>

\* ---------------------------------------------------------- pure functions
Digit(d) == <<"0", "1", "2", "3", "4", "5", "6", "7", "8", "9">>[d + 1]

RECURSIVE DecStr(_)
\* str(n) of a non-negative int, one character per element.
DecStr(n) == IF n < 10 THEN <<Digit(n)>> ELSE DecStr(n \div 10) \o <<Digit(n % 10)>>

\* str(n) of any int.
Str(n) == IF n < 0 THEN <<"-">> \o DecStr(-n) ELSE DecStr(n)

\* The command with the angle first and the speed second.
EncodeSwapped(speed, angle) == Str(angle) \o <<",">> \o Str(speed) \o <<"\n">>

\* command = f"{speed},{angle}\n"
Encode(speed, angle) == Str(speed) \o <<",">> \o Str(angle) \o <<"\n">>

\* A split transmission: the speed part and the angle part in two writes.
WriteCallsSplit(speed, angle) ==
    << Str(speed) \o <<",">>, Str(angle) \o <<"\n">> >>

\* The channel writes one send_command issues: one write of the whole command.
WriteCalls(speed, angle) == << Encode(speed, angle) >>

\* Range check with the upper ends excluded.
InRangeStrict(speed, angle) ==
    (0 <= speed /\ speed < MaxSpeed) /\ (0 <= angle /\ angle < MaxAngle)

\* "Validate ranges": 0 <= speed <= 255 and 0 <= angle <= 180.
InRange(speed, angle) ==
    (0 <= speed /\ speed <= MaxSpeed) /\ (0 <= angle /\ angle <= MaxAngle)

\* if not command.endswith('\n'): command += '\n'
RawBytes(cmd) ==
    IF Len(cmd) > 0 /\ cmd[Len(cmd)] = "\n" THEN cmd ELSE cmd \o <<"\n">>

\* is_connected() evaluated in one piece (no other thread in between).
IsConnectedNow ==
    /\ is_connected_flag
    /\ connection # NoChannel
    /\ chans[connection].is_open

\* -------------------------------------------------------------- thread state
\* The link's attributes as one value (taken when a call starts).
LinkState ==
    [ connection |-> connection, port |-> port, flag |-> is_connected_flag,
      open |-> (connection # NoChannel /\ chans[connection].is_open),
      isconn |-> IsConnectedNow ]

NoPre == [ connection |-> NoChannel, port |-> "", flag |-> FALSE,
           open |-> FALSE, isconn |-> FALSE ]

\* A thread outside any call.
IdleThread ==
    [ pc |-> "idle", op |-> "none", inner |-> FALSE,
      speed |-> 0, angle |-> 0, cmd |-> <<>>, timeout |-> <<>>, portArg |-> "",
      old_timeout |-> <<>>, k |-> 1, mychan |-> NoChannel, res |-> "None",
      ret |-> "pending",
      \* history of the current (or last) call
      chk |-> "none",      \* what the call's is_connected() check gave
      wrote |-> <<>>,      \* bytes this call handed to the channel
      wfail |-> FALSE,     \* a channel write of this call raised
      closed |-> FALSE,    \* this call closed a channel
      solo |-> TRUE,       \* no other thread or handler has acted during the call
      pre |-> NoPre ]      \* the link when the call began

\* What a step of somebody else makes of a thread's record: a call in
\* progress has been interleaved with; the record of a call that has
\* returned is kept only up to the next step of anybody.
Passed(q) == IF q.pc = "idle" THEN IdleThread ELSE [q EXCEPT !.solo = FALSE]

\* The thread t takes a step to record r.
Step(t, r) ==
    /\ thr' = [u \in Threads |-> IF u = t THEN r ELSE Passed(thr[u])]
    /\ UNCHANGED <<regVars, clsVars, mon>>

\* return val: the call's locals are gone, its arguments and result stay on
\* record.
Return(r, val) ==
    [r EXCEPT !.pc = "idle", !.ret = val, !.inner = FALSE, !.old_timeout = <<>>,
              !.k = 1, !.mychan = NoChannel, !.res = "None"]

\* A channel as serial.Serial(port, self.baudrate, timeout=self.timeout)
\* returns it: open, nothing written, the settle delay not yet elapsed.
NewChannel ==
    [is_open |-> TRUE, wire |-> <<>>, settled |-> FALSE, timeout |-> DefaultTimeout]

\* The link as __init__ leaves it: no channel, no port, not connected.
InitFresh ==
    /\ connection = NoChannel
    /\ port = ""
    /\ is_connected_flag = FALSE
    /\ chans = <<>>

\* The link as its owners hold it (views.add_motor and the websocket
\* consumer keep a link only once it is connected): the state in which a
\* successful connect("COM3") leaves a fresh link.
InitConnected ==
    /\ connection = 1
    /\ port = "COM3"
    /\ is_connected_flag = TRUE
    /\ chans = << [NewChannel EXCEPT !.settled = TRUE] >>

\* A thread that is not inside a registry call and has made none.  port,
\* motor_number, connected, position, command and callback are the call's
\* arguments; i and listener are the loop state of _notify_listeners; snap
\* is the dictionary a get_all_connections() of the call returned and rec
\* the record a get_connection() returned;
\* obj is what ConnectionManager() returned to the call and reinit whether
\* the call's __init__ went past its guard.  The other fields record what
\* the call did: the registry's contents before and after its locked
\* block, the listeners it called, whether one of them raised, whether
\* the listener list stayed as it was during the call, the listener list
\* when the call's locked block ended (ls0) and the listeners that left the
\* list since then (gone).
IdleCaller ==
    [pc |-> "idle", op |-> "none", port |-> "", motor_number |-> 0,
     connected |-> FALSE, position |-> "None", command |-> "None",
     callback |-> "", i |-> 0, listener |-> "", snap |-> EmptyMap,
     rec |-> NoRecord, obj |-> NoInstance, ret |-> "pending", reinit |-> FALSE,
     locked |-> FALSE, before |-> EmptyMap, after |-> EmptyMap, called |-> <<>>,
     raised |-> FALSE, lstable |-> TRUE, ls0 |-> <<>>, gone |-> {}]

\* The registry as the module leaves it when it has been imported: line 170,
\* connection_manager = ConnectionManager(), has created and initialised the
\* one object before any thread can reach the class.
InitRegistry ==
    /\ _instance = TheInstance
    /\ _initialized = "True"
    /\ _lock = NoHolder
    /\ _connections = EmptyMap
    /\ recs = <<>>
    /\ _listeners = <<>>
    /\ _data_lock = NoHolder
    /\ clock = 1
    /\ rthr = [t \in Threads |-> IdleCaller]
    /\ rops = 0

\* The monitor as AssettoPhysics.__init__ leaves it, no loop running.
\* previous_gear and previous_z_accel are the object's attributes;
\* gear_data, accel_data are the locals of the tick in progress, event what
\* the tick has emitted, args the arguments of its send_command and sent
\* what that call did.  tick counts
\* the ticks; sample is what the tick's first read of the telemetry
\* returned and last what the first read of the tick before returned; seen
\* is the last gear any earlier tick read; prev_used is the previous
\* acceleration that the tick's get_acceleration_factor compared with;
\* steady tells that the second read of the tick returned the same
\* acceleration as the first; last_sent is sent of the tick before.
MonitorOff ==
    [pc |-> "off", previous_gear |-> <<>>, previous_z_accel |-> <<>>,
     gear_data |-> <<>>, accel_data |-> <<>>, event |-> "none",
     args |-> <<>>, sent |-> "none",
     tick |-> 0, sample |-> <<>>, last |-> <<>>, seen |-> <<>>,
     prev_used |-> <<>>, steady |-> TRUE, last_sent |-> "none"]

Init ==
    /\ (InitFresh \/ InitConnected)
    /\ thr = [t \in Threads |-> IdleThread]
    /\ ops = 0
    /\ InitRegistry
    /\ mon = MonitorOff

\* ------------------------------------------------------------------- calls
NewCall(name, first) ==
    [IdleThread EXCEPT !.pc = first, !.op = name, !.pre = LinkState]

Callable(t) == thr[t].pc = "idle" /\ ops < MaxOps

CallConnect(t) ==
    /\ Callable(t)
    /\ \E p \in Ports : Step(t, [NewCall("connect", "co_open") EXCEPT !.portArg = p])
    /\ ops' = ops + 1
    /\ UNCHANGED <<connection, port, is_connected_flag, chans>>

CallDisconnect(t) ==
    /\ Callable(t)
    /\ Step(t, NewCall("disconnect", "di_conn"))
    /\ ops' = ops + 1
    /\ UNCHANGED <<connection, port, is_connected_flag, chans>>

CallSendCommand(t) ==
    /\ Callable(t)
    /\ \E a \in SendArgs :
          Step(t, [NewCall("send", "ic_flag") EXCEPT !.speed = a[1], !.angle = a[2]])
    /\ ops' = ops + 1
    /\ UNCHANGED <<connection, port, is_connected_flag, chans>>

CallSendRawCommand(t) ==
    /\ Callable(t)
    /\ \E c \in RawArgs : Step(t, [NewCall("raw", "ic_flag") EXCEPT !.cmd = c])
    /\ ops' = ops + 1
    /\ UNCHANGED <<connection, port, is_connected_flag, chans>>

CallReadResponse(t) ==
    /\ Callable(t)
    /\ \E to \in TimeoutArgs :
          Step(t, [NewCall("read", "ic_flag") EXCEPT !.timeout = to])
    /\ ops' = ops + 1
    /\ UNCHANGED <<connection, port, is_connected_flag, chans>>

\* ----------------------------------------------------------- is_connected()
\* The check's result ignored by send_command and send_raw_command: a falsy
\* is_connected() goes on to the write.
AfterCheckNoGuard(r, result) ==
    IF r.inner
    THEN CASE result = "raise" -> Return(r, "False")
           [] result = "false" -> Return(r, "True")
           [] OTHER            -> [r EXCEPT !.pc = "rd_old"]
    ELSE LET c == [r EXCEPT !.chk = result] IN
         CASE result = "raise" -> Return(c, "raise")
           [] r.op = "read"    -> IF result = "false" THEN Return(c, "None")
                                  ELSE [c EXCEPT !.pc = "rd_old"]
           [] r.op = "raw"     -> [c EXCEPT !.pc = "write"]
           [] OTHER            -> IF InRange(r.speed, r.angle)
                                  THEN [c EXCEPT !.pc = "write"]
                                  ELSE Return(c, "False")

\* return self._is_connected and self.connection and self.connection.is_open
\* is three loads of shared attributes.  What follows the result depends on
\* the caller: send_command (outside its try), send_raw_command,
\* read_response, or the read_response() that send_command calls inside its
\* try (inner).
AfterCheck(r, result) ==
    IF r.inner
    THEN CASE result = "raise" -> Return(r, "False")   \* except Exception in send_command
           [] result = "false" -> Return(r, "True")    \* read_response returns None
           [] OTHER            -> [r EXCEPT !.pc = "rd_old"]
    ELSE LET c == [r EXCEPT !.chk = result] IN
         CASE result = "raise" -> Return(c, "raise")
           [] result = "false" -> Return(c, IF r.op = "read" THEN "None" ELSE "False")
           [] r.op = "read"    -> [c EXCEPT !.pc = "rd_old"]
           [] r.op = "raw"     -> [c EXCEPT !.pc = "write"]
           [] OTHER            -> IF InRange(r.speed, r.angle)
                                  THEN [c EXCEPT !.pc = "write"]
                                  ELSE Return(c, "False")

\* self._is_connected and ...
is_connected_flag_load(t) ==
    /\ thr[t].pc = "ic_flag"
    /\ Step(t, IF is_connected_flag THEN [thr[t] EXCEPT !.pc = "ic_conn"]
               ELSE AfterCheck(thr[t], "false"))
    /\ UNCHANGED <<connection, port, is_connected_flag, chans, ops>>

\* ... and self.connection and ...
is_connected_conn_load(t) ==
    /\ thr[t].pc = "ic_conn"
    /\ Step(t, IF connection # NoChannel THEN [thr[t] EXCEPT !.pc = "ic_open"]
               ELSE AfterCheck(thr[t], "false"))
    /\ UNCHANGED <<connection, port, is_connected_flag, chans, ops>>

\* A last operand that does not look at the channel: ... and self.connection
is_connected_open_load_noopen(t) ==
    /\ thr[t].pc = "ic_open"
    /\ Step(t, IF connection = NoChannel THEN AfterCheck(thr[t], "false")
               ELSE AfterCheck(thr[t], "true"))
    /\ UNCHANGED <<connection, port, is_connected_flag, chans, ops>>

\* ... and self.connection.is_open  (AttributeError when self.connection has
\* become None since the previous load)
is_connected_open_load(t) ==
    /\ thr[t].pc = "ic_open"
    /\ Step(t, IF connection = NoChannel THEN AfterCheck(thr[t], "raise")
               ELSE IF chans[connection].is_open THEN AfterCheck(thr[t], "true")
               ELSE AfterCheck(thr[t], "false"))
    /\ UNCHANGED <<connection, port, is_connected_flag, chans, ops>>

\* ------------------------------------------- send_command / send_raw_command
\* The bytes of the write the thread is about to issue.
WriteData(r) ==
    IF r.op = "raw" THEN RawBytes(r.cmd) ELSE WriteCalls(r.speed, r.angle)[r.k]

LastWrite(r) == r.op = "raw" \/ r.k = Len(WriteCalls(r.speed, r.angle))

\* After the last write: send_raw_command returns True, send_command goes on
\* to response = self.read_response().
AfterWrite(r) ==
    IF r.op = "raw" THEN Return(r, "True")
    ELSE [r EXCEPT !.pc = "ic_flag", !.inner = TRUE]

\* A failed write that also marks the link disconnected.
WriteFailsDisconnects(t) ==
    /\ thr[t].pc = "write"
    /\ is_connected_flag' = FALSE
    /\ Step(t, Return([thr[t] EXCEPT !.wfail = (connection # NoChannel)], "False"))
    /\ UNCHANGED <<connection, port, chans, ops>>

\* self.connection.write(command.encode()) raising: AttributeError when
\* self.connection is None, an I/O error of the channel otherwise (always
\* when the channel is closed).  Caught by except Exception: return False.
WriteFails(t) ==
    /\ thr[t].pc = "write"
    /\ Step(t, Return([thr[t] EXCEPT !.wfail = (connection # NoChannel)], "False"))
    /\ UNCHANGED <<connection, port, is_connected_flag, chans, ops>>

\* self.connection.write(command.encode()) on an open channel.
WriteOk(t) ==
    /\ thr[t].pc = "write"
    /\ connection # NoChannel
    /\ chans[connection].is_open
    /\ LET r == thr[t]
           d == WriteData(r)
           w == [r EXCEPT !.wrote = r.wrote \o d]
       IN /\ chans' = [chans EXCEPT ![connection].wire = @ \o d]
          /\ Step(t, IF LastWrite(r) THEN AfterWrite(w) ELSE [w EXCEPT !.k = r.k + 1])
    /\ UNCHANGED <<connection, port, is_connected_flag, ops>>

\* ------------------------------------------------------------ read_response
\* The end of read_response with result res: read_response's value is
\* dropped by send_command, which then returns True.
FinishRead(r, res) ==
    IF r.inner THEN Return(r, "True") ELSE Return(r, res)

\* Leaving the try block with result res: the finally clause touches the
\* channel only when a timeout was given.
ReadExit(r, res) ==
    IF r.timeout # <<>> THEN [r EXCEPT !.pc = "rd_fin", !.res = res]
    ELSE FinishRead(r, res)

\* old_timeout = self.connection.timeout
ReadOldTimeout(t) ==
    /\ thr[t].pc = "rd_old"
    /\ LET r == thr[t] IN
       Step(t, IF connection = NoChannel THEN ReadExit(r, "None")
               ELSE [r EXCEPT !.old_timeout = <<chans[connection].timeout>>,
                              !.pc = IF r.timeout # <<>> THEN "rd_set" ELSE "rd_wait"])
    /\ UNCHANGED <<connection, port, is_connected_flag, chans, ops>>

\* self.connection.timeout = timeout
ReadSetTimeout(t) ==
    /\ thr[t].pc = "rd_set"
    /\ LET r == thr[t] IN
       IF connection = NoChannel
       THEN Step(t, ReadExit(r, "None")) /\ UNCHANGED chans
       ELSE /\ chans' = [chans EXCEPT ![connection].timeout = r.timeout[1]]
            /\ Step(t, [r EXCEPT !.pc = "rd_wait"])
    /\ UNCHANGED <<connection, port, is_connected_flag, ops>>

\* time.sleep(0.1); if self.connection.in_waiting > 0: ... else return None.
\* Reading in_waiting raises when self.connection is None or the channel is
\* closed, and may raise on an open channel (I/O error).
ReadInWaiting(t) ==
    /\ thr[t].pc = "rd_wait"
    /\ LET r == thr[t] IN
       \E avail \in {"raise", "zero", "some"} :
          /\ (connection = NoChannel \/ ~chans[connection].is_open) => avail = "raise"
          /\ Step(t, IF avail = "some" THEN [r EXCEPT !.pc = "rd_line"]
                     ELSE ReadExit(r, "None"))
    /\ UNCHANGED <<connection, port, is_connected_flag, chans, ops>>

\* response = self.connection.readline().decode('utf-8', errors='ignore').strip()
\* return response if response else None; an exception goes to the inner
\* except clause.
ReadLine(t) ==
    /\ thr[t].pc = "rd_line"
    /\ LET r == thr[t] IN
       \E line \in {"raise", "empty", "text"} :
          /\ (connection = NoChannel \/ ~chans[connection].is_open) => line = "raise"
          /\ Step(t, CASE line = "raise" -> [r EXCEPT !.pc = "rd_raw"]
                       [] line = "empty" -> ReadExit(r, "None")
                       [] OTHER          -> ReadExit(r, "str"))
    /\ UNCHANGED <<connection, port, is_connected_flag, chans, ops>>

\* raw_response = self.connection.readline(); return f"Raw: {raw_response}";
\* an exception goes to the outer except clause: return None.
ReadRawLine(t) ==
    /\ thr[t].pc = "rd_raw"
    /\ LET r == thr[t] IN
       \E line \in {"raise", "bytes"} :
          /\ (connection = NoChannel \/ ~chans[connection].is_open) => line = "raise"
          /\ Step(t, IF line = "raise" THEN ReadExit(r, "None") ELSE ReadExit(r, "str"))
    /\ UNCHANGED <<connection, port, is_connected_flag, chans, ops>>

\* finally: if timeout is not None: self.connection.timeout = old_timeout.
\* Raises out of read_response when old_timeout was never bound or
\* self.connection is None.
ReadFinally(t) ==
    /\ thr[t].pc = "rd_fin"
    /\ LET r == thr[t] IN
       IF r.old_timeout = <<>> \/ connection = NoChannel
       THEN Step(t, Return(r, "raise")) /\ UNCHANGED chans
       ELSE /\ chans' = [chans EXCEPT ![connection].timeout = r.old_timeout[1]]
            /\ Step(t, FinishRead(r, r.res))
    /\ UNCHANGED <<connection, port, is_connected_flag, ops>>

\* ------------------------------------------------------------------ connect
\* A failed open that leaves the link marked connected.
ConnectFailsMarks(t) ==
    /\ thr[t].pc = "co_open"
    /\ is_connected_flag' = TRUE
    /\ Step(t, Return(thr[t], "False"))
    /\ UNCHANGED <<connection, port, chans, ops>>

\* if not port: return False
\* self.connection = serial.Serial(port, ...) fails: except SerialException,
\* return False.
ConnectFails(t) ==
    /\ thr[t].pc = "co_open"
    /\ Step(t, Return(thr[t], "False"))
    /\ UNCHANGED <<connection, port, is_connected_flag, chans, ops>>

\* self.connection = serial.Serial(port, self.baudrate, timeout=self.timeout):
\* a new open channel becomes the link's channel.
ConnectOpen(t) ==
    /\ thr[t].pc = "co_open"
    /\ thr[t].portArg # ""
    /\ chans' = Append(chans, NewChannel)
    /\ connection' = Len(chans) + 1
    /\ Step(t, [thr[t] EXCEPT !.pc = "co_port", !.mychan = Len(chans) + 1])
    /\ UNCHANGED <<port, is_connected_flag, ops>>

\* time.sleep(2) has elapsed; self.port = port
ConnectSetPort(t) ==
    /\ thr[t].pc = "co_port"
    /\ chans' = [chans EXCEPT ![thr[t].mychan].settled = TRUE]
    /\ port' = thr[t].portArg
    /\ Step(t, [thr[t] EXCEPT !.pc = "co_flag"])
    /\ UNCHANGED <<connection, is_connected_flag, ops>>

\* A connect that marks the link connected and reports failure.
ConnectSetFlagFails(t) ==
    /\ thr[t].pc = "co_flag"
    /\ is_connected_flag' = TRUE
    /\ Step(t, Return(thr[t], "False"))
    /\ UNCHANGED <<connection, port, chans, ops>>

\* self._is_connected = True; return True
ConnectSetFlag(t) ==
    /\ thr[t].pc = "co_flag"
    /\ is_connected_flag' = TRUE
    /\ Step(t, Return(thr[t], "True"))
    /\ UNCHANGED <<connection, port, chans, ops>>

\* --------------------------------------------------------------- disconnect
\* A disconnect that never closes the channel.
DisconnectLoadConnNoClose(t) ==
    /\ thr[t].pc = "di_conn"
    /\ Step(t, [thr[t] EXCEPT !.pc = "di_flag"])
    /\ UNCHANGED <<connection, port, is_connected_flag, chans, ops>>

\* if self.connection and ...
DisconnectLoadConn(t) ==
    /\ thr[t].pc = "di_conn"
    /\ Step(t, [thr[t] EXCEPT !.pc = IF connection # NoChannel THEN "di_open" ELSE "di_flag"])
    /\ UNCHANGED <<connection, port, is_connected_flag, chans, ops>>

\* ... and self.connection.is_open:
DisconnectLoadOpen(t) ==
    /\ thr[t].pc = "di_open"
    /\ Step(t, IF connection = NoChannel THEN Return(thr[t], "raise")
               ELSE [thr[t] EXCEPT !.pc = IF chans[connection].is_open
                                          THEN "di_close" ELSE "di_flag"])
    /\ UNCHANGED <<connection, port, is_connected_flag, chans, ops>>

\* self.connection.close()
DisconnectClose(t) ==
    /\ thr[t].pc = "di_close"
    /\ IF connection = NoChannel
       THEN Step(t, Return(thr[t], "raise")) /\ UNCHANGED chans
       ELSE /\ chans' = [chans EXCEPT ![connection].is_open = FALSE]
            /\ Step(t, [thr[t] EXCEPT !.pc = "di_flag",
                                      !.closed = chans[connection].is_open])
    /\ UNCHANGED <<connection, port, is_connected_flag, ops>>

\* self._is_connected = False
DisconnectClearFlag(t) ==
    /\ thr[t].pc = "di_flag"
    /\ is_connected_flag' = FALSE
    /\ Step(t, [thr[t] EXCEPT !.pc = "di_ref"])
    /\ UNCHANGED <<connection, port, chans, ops>>

\* self.connection = None
DisconnectClearConn(t) ==
    /\ thr[t].pc = "di_ref"
    /\ connection' = NoChannel
    /\ Step(t, [thr[t] EXCEPT !.pc = "di_port"])
    /\ UNCHANGED <<port, is_connected_flag, chans, ops>>

\* self.port = None; return
DisconnectClearPort(t) ==
    /\ thr[t].pc = "di_port"
    /\ port' = ""
    /\ Step(t, Return(thr[t], "None"))
    /\ UNCHANGED <<connection, is_connected_flag, chans, ops>>

\* -------------------------------------------------------------- environment
\* Some other handler has acted: no call is alone any more.
Interleaved ==
    /\ thr' = [u \in Threads |-> Passed(thr[u])]
    /\ UNCHANGED <<regVars, clsVars, mon>>

\* views.remove_motor: if controller.connection: controller.connection.close()
\* closes the channel without going through the link.
ExternalClose ==
    /\ connection # NoChannel
    /\ chans[connection].is_open
    /\ chans' = [chans EXCEPT ![connection].is_open = FALSE]
    /\ Interleaved
    /\ UNCHANGED <<connection, port, is_connected_flag, ops>>

\* A serial.Serial object the link no longer references (self.connection was
\* rebound) is closed if and when the runtime finalizes it; the link's code
\* never closes it.
Finalize ==
    /\ \E c \in 1..Len(chans) :
          /\ c # connection
          /\ chans[c].is_open
          /\ chans' = [chans EXCEPT ![c].is_open = FALSE]
    /\ Interleaved
    /\ UNCHANGED <<connection, port, is_connected_flag, ops>>

\* ------------------------------------------------------------ specification
Next ==
    \/ \E t \in Threads :
          \/ CallConnect(t)
          \/ CallDisconnect(t)
          \/ CallSendCommand(t)
          \/ CallSendRawCommand(t)
          \/ CallReadResponse(t)
          \/ is_connected_flag_load(t)
          \/ is_connected_conn_load(t)
          \/ is_connected_open_load(t)
          \/ WriteFails(t)
          \/ WriteOk(t)
          \/ ReadOldTimeout(t)
          \/ ReadSetTimeout(t)
          \/ ReadInWaiting(t)
          \/ ReadLine(t)
          \/ ReadRawLine(t)
          \/ ReadFinally(t)
          \/ ConnectFails(t)
          \/ ConnectOpen(t)
          \/ ConnectSetPort(t)
          \/ ConnectSetFlag(t)
          \/ DisconnectLoadConn(t)
          \/ DisconnectLoadOpen(t)
          \/ DisconnectClose(t)
          \/ DisconnectClearFlag(t)
          \/ DisconnectClearConn(t)
          \/ DisconnectClearPort(t)
    \/ ExternalClose
    \/ Finalize

Spec == Init /\ [][Next]_vars

TypeOK ==
    /\ connection \in 0..Len(chans)
    /\ port \in Ports
    /\ is_connected_flag \in BOOLEAN
    /\ ops \in 0..MaxOps
    /\ Len(chans) <= ops + 1

\* ----------------------------------------- specification of one valid send
\* The first call on a connected link is a send_command with arguments in
\* range, made by the websocket thread.
CallSendCommandValid(t) ==
    /\ thr[t].pc = "idle"
    /\ ops = 0
    /\ \E a \in ValidSendArgs :
          Step(t, [NewCall("send", "ic_flag") EXCEPT !.speed = a[1], !.angle = a[2]])
    /\ ops' = ops + 1
    /\ UNCHANGED <<connection, port, is_connected_flag, chans>>

\* One send_command(speed, angle) with every pair of arguments in range,
\* on a connected link that nobody else uses.  Its read_response() is
\* called without a timeout, so the steps that set and restore the
\* channel's timeout do not occur.
NextSend ==
    \/ CallSendCommandValid("ws")
    \/ is_connected_flag_load("ws")
    \/ is_connected_conn_load("ws")
    \/ is_connected_open_load("ws")
    \/ WriteFails("ws")
    \/ WriteOk("ws")
    \/ ReadOldTimeout("ws")
    \/ ReadInWaiting("ws")
    \/ ReadLine("ws")
    \/ ReadRawLine("ws")

InitSend ==
    /\ InitConnected
    /\ thr = [t \in Threads |-> IdleThread]
    /\ ops = 0
    /\ InitRegistry
    /\ mon = MonitorOff

SpecSend == InitSend /\ [][NextSend]_vars

\* ================================================================ registry
\* Every step below is one locked block (the lock is taken, the block runs
\* and the lock is released), one part of a locked block that makes two
\* stores, or one access to self._listeners, which no lock protects.

\* The registry's contents: port -> the record stored for it, by value.
Contents == [p \in DOMAIN _connections |-> recs[_connections[p]]]

\* d[k] = v on a dictionary; del d[k].
Put(d, k, v) == [p \in DOMAIN d \cup {k} |-> IF p = k THEN v ELSE d[p]]
Del(d, k) == [p \in DOMAIN d \ {k} |-> d[p]]

\* The record of a call that has returned is kept only up to the next step
\* of anybody.
RPassed(q) == IF q.pc = "idle" THEN IdleCaller ELSE q

\* As RPassed, when the step changes self._listeners.
LPassed(q) ==
    IF q.pc = "idle" THEN IdleCaller
    ELSE [q EXCEPT !.lstable = FALSE,
                   !.gone = @ \cup
                       {l \in Listeners :
                           /\ \E j \in 1..Len(_listeners) : _listeners[j] = l
                           /\ \A j \in 1..Len(_listeners') : _listeners'[j] # l}]

\* The thread t takes a registry step to record r.
RStep(t, r) ==
    /\ rthr' = [u \in Threads |-> IF u = t THEN r ELSE RPassed(rthr[u])]
    /\ UNCHANGED <<linkVars, clsVars, mon>>

\* The thread t takes a step that changes self._listeners.
LStep(t, r) ==
    /\ rthr' = [u \in Threads |-> IF u = t THEN r ELSE LPassed(rthr[u])]
    /\ UNCHANGED <<linkVars, clsVars, mon>>

\* The thread t takes a step of ConnectionManager() to record r; the step
\* at "in_list" is the one that assigns self._listeners.
CStep(t, r) ==
    /\ rthr' = [u \in Threads |->
                  IF u = t THEN r
                  ELSE IF rthr[t].pc = "in_list" THEN LPassed(rthr[u])
                  ELSE RPassed(rthr[u])]
    /\ UNCHANGED <<linkVars, mon>>

RNewCall(name, first) == [IdleCaller EXCEPT !.pc = first, !.op = name]

RCallable(t) == rthr[t].pc = "idle" /\ rops < MaxRegOps

\* return val: the loop state is gone, the arguments and the result stay
\* on record.
RReturn(r, val) ==
    [r EXCEPT !.pc = "idle", !.ret = val, !.i = 0, !.listener = ""]

\* The locked block of a mutating call has run: on to line 56/70/87/102,
\* self._notify_listeners().
Notify(r, before, after) ==
    [r EXCEPT !.pc = "nl_next", !.i = 0, !.locked = TRUE,
              !.before = before, !.after = after, !.ls0 = _listeners]

\* ------------------------------------------------------ register_connection
CallRegister(t) ==
    /\ RCallable(t)
    /\ \E a \in RegisterArgs :
          RStep(t, [RNewCall("register", "rc_store") EXCEPT
                        !.port = a[1], !.motor_number = a[2]])
    /\ rops' = rops + 1
    /\ UNCHANGED <<_connections, recs, _listeners, _data_lock, clock>>

\* The dictionary literal of lines 46-53.
NewRecord(p, motor_number, now) ==
    [port |-> p, connected |-> TRUE, motor_number |-> motor_number,
     position |-> "None", connected_at |-> now, last_command |-> "None",
     disconnected_at |-> <<>>, last_command_at |-> <<>>]

\* A store that leaves the record of a port that is already present.
RegisterStoreKeepsExisting(t) ==
    LET r == rthr[t] IN
    /\ r.pc = "rc_store"
    /\ _data_lock = NoHolder
    /\ UNCHANGED <<_listeners, _data_lock, rops>>
    /\ recs' = Append(recs, NewRecord(r.port, r.motor_number, clock))
    /\ _connections' = IF r.port \in DOMAIN _connections THEN _connections
                       ELSE Put(_connections, r.port, Len(recs) + 1)
    /\ clock' = clock + 1
    /\ RStep(t, Notify(r, Contents, Contents'))

\* with self._data_lock: self._connections[port] = {...}
RegisterStore(t) ==
    LET r == rthr[t] IN
    /\ r.pc = "rc_store"
    /\ _data_lock = NoHolder
    /\ UNCHANGED <<_listeners, _data_lock, rops>>
    /\ recs' = Append(recs, NewRecord(r.port, r.motor_number, clock))
    /\ _connections' = Put(_connections, r.port, Len(recs) + 1)
    /\ clock' = clock + 1
    /\ RStep(t, Notify(r, Contents, Contents'))

\* -------------------------------------------------------- _notify_listeners
\* for listener in self._listeners: the list iterator takes the element at
\* its index if the list is that long, and ends the loop otherwise.
NotifyNext(t) ==
    LET r == rthr[t] IN
    /\ r.pc = "nl_next"
    /\ IF r.i < Len(_listeners)
       THEN RStep(t, [r EXCEPT !.pc = "nl_snap", !.i = r.i + 1,
                               !.listener = _listeners[r.i + 1]])
       ELSE RStep(t, RReturn(r, "None"))
    /\ UNCHANGED <<_connections, recs, _listeners, _data_lock, clock, rops>>

\* The listener called inside the with block of the copy.
NotifySnapshotHoldsLock(t) ==
    LET r == rthr[t] IN
    /\ r.pc = "nl_snap"
    /\ _data_lock = NoHolder
    /\ _data_lock' = t
    /\ RStep(t, [r EXCEPT !.pc = "in_cb", !.snap = _connections,
                          !.called = Append(r.called, r.listener)])
    /\ UNCHANGED <<_connections, recs, _listeners, clock, rops>>

\* self.get_all_connections() as the argument of the call, then the call of
\* the listener: the thread is inside the callback.
NotifySnapshot(t) ==
    LET r == rthr[t] IN
    /\ r.pc = "nl_snap"
    /\ _data_lock = NoHolder
    /\ RStep(t, [r EXCEPT !.pc = "in_cb", !.snap = _connections,
                          !.called = Append(r.called, r.listener)])
    /\ UNCHANGED <<_connections, recs, _listeners, _data_lock, clock, rops>>

\* The listener returns.
ListenerReturns(t) ==
    LET r == rthr[t] IN
    /\ r.pc = "in_cb"
    /\ r.listener = "l_ok"
    /\ RStep(t, [r EXCEPT !.pc = "nl_next", !.snap = EmptyMap])
    /\ UNCHANGED <<_connections, recs, _listeners, _data_lock, clock, rops>>

\* The listener raises and nothing catches it: the call ends with the exception.
ListenerRaisesPropagates(t) ==
    LET r == rthr[t] IN
    /\ r.pc = "in_cb"
    /\ r.listener = "l_raise"
    /\ RStep(t, RReturn([r EXCEPT !.snap = EmptyMap, !.raised = TRUE], "raise"))
    /\ UNCHANGED <<_connections, recs, _listeners, _data_lock, clock, rops>>

\* The listener raises: except Exception (line 165) logs and the loop goes on.
ListenerRaises(t) ==
    LET r == rthr[t] IN
    /\ r.pc = "in_cb"
    /\ r.listener = "l_raise"
    /\ RStep(t, [r EXCEPT !.pc = "nl_next", !.snap = EmptyMap, !.raised = TRUE])
    /\ UNCHANGED <<_connections, recs, _listeners, _data_lock, clock, rops>>

\* ---------------------------------------------------- unregister_connection
CallUnregister(t) ==
    /\ RCallable(t)
    /\ \E p \in RegPorts :
          RStep(t, [RNewCall("unregister", "ur_del") EXCEPT !.port = p])
    /\ rops' = rops + 1
    /\ UNCHANGED <<_connections, recs, _listeners, _data_lock, clock>>

\* A delete that empties the dictionary.
UnregisterDeleteClearsAll(t) ==
    LET r == rthr[t] IN
    /\ r.pc = "ur_del"
    /\ _data_lock = NoHolder
    /\ UNCHANGED <<recs, _listeners, _data_lock, clock, rops>>
    /\ _connections' = EmptyMap
    /\ RStep(t, Notify(r, Contents, Contents'))

\* with self._data_lock: if port in self._connections: del ...
UnregisterDelete(t) ==
    LET r == rthr[t] IN
    /\ r.pc = "ur_del"
    /\ _data_lock = NoHolder
    /\ UNCHANGED <<recs, _listeners, _data_lock, clock, rops>>
    /\ _connections' = IF r.port \in DOMAIN _connections
                       THEN Del(_connections, r.port)
                       ELSE _connections
    /\ RStep(t, Notify(r, Contents, Contents'))

\* ------------------------------------------------- update_connection_status
CallUpdateStatus(t) ==
    /\ RCallable(t)
    /\ \E p \in UpdatePorts, c \in BOOLEAN :
          RStep(t, [RNewCall("update_status", "us_set") EXCEPT
                        !.port = p, !.connected = c])
    /\ rops' = rops + 1
    /\ UNCHANGED <<_connections, recs, _listeners, _data_lock, clock>>

\* A status update that goes on to stamp disconnected_at whatever connected is.
UpdateStatusSetAlwaysStamps(t) ==
    LET r == rthr[t] IN
    /\ r.pc = "us_set"
    /\ _data_lock = NoHolder
    /\ IF r.port \notin DOMAIN _connections
       THEN /\ RStep(t, Notify(r, Contents, Contents))
            /\ UNCHANGED <<recs, _data_lock>>
       ELSE /\ recs' = [recs EXCEPT ![_connections[r.port]].connected = r.connected]
            /\ _data_lock' = t
            /\ RStep(t, [r EXCEPT !.pc = "us_stamp", !.before = Contents])
    /\ UNCHANGED <<_connections, _listeners, clock, rops>>

\* A status update that creates the record of a port that is absent.
UpdateStatusSetCreates(t) ==
    LET r == rthr[t] IN
    /\ r.pc = "us_set"
    /\ _data_lock = NoHolder
    /\ UNCHANGED <<_listeners, clock, rops>>
    /\ IF r.port \notin DOMAIN _connections
       THEN /\ recs' = Append(recs, NewRecord(r.port, 0, clock))
            /\ _connections' = Put(_connections, r.port, Len(recs) + 1)
            /\ UNCHANGED _data_lock
            /\ RStep(t, Notify(r, Contents, Contents'))
       ELSE /\ UNCHANGED _connections
            /\ recs' = [recs EXCEPT ![_connections[r.port]].connected = r.connected]
            /\ IF r.connected
               THEN /\ RStep(t, Notify(r, Contents, Contents'))
                    /\ UNCHANGED _data_lock
               ELSE /\ _data_lock' = t
                    /\ RStep(t, [r EXCEPT !.pc = "us_stamp", !.before = Contents])

\* with self._data_lock: if port in self._connections:
\*     self._connections[port]['connected'] = connected
\* and, when connected is false, the lock stays held for the second store.
UpdateStatusSet(t) ==
    LET r == rthr[t] IN
    /\ r.pc = "us_set"
    /\ _data_lock = NoHolder
    /\ UNCHANGED <<_connections, _listeners, clock, rops>>
    /\ IF r.port \notin DOMAIN _connections
       THEN /\ RStep(t, Notify(r, Contents, Contents))
            /\ UNCHANGED <<recs, _data_lock>>
       ELSE /\ recs' = [recs EXCEPT ![_connections[r.port]].connected = r.connected]
            /\ IF r.connected
               THEN /\ RStep(t, Notify(r, Contents, Contents'))
                    /\ UNCHANGED _data_lock
               ELSE /\ _data_lock' = t
                    /\ RStep(t, [r EXCEPT !.pc = "us_stamp", !.before = Contents])

\* if not connected:
\*     self._connections[port]['disconnected_at'] = datetime.now().isoformat()
UpdateStatusStamp(t) ==
    LET r == rthr[t] IN
    /\ r.pc = "us_stamp"
    /\ _data_lock = t
    /\ UNCHANGED <<_connections, _listeners, rops>>
    /\ recs' = [recs EXCEPT ![_connections[r.port]].disconnected_at = <<clock>>]
    /\ clock' = clock + 1
    /\ _data_lock' = NoHolder
    /\ RStep(t, Notify(r, r.before, Contents'))

\* ---------------------------------------------------- update_motor_position
CallUpdatePosition(t) ==
    /\ RCallable(t)
    /\ \E p \in UpdatePorts, pos \in Positions :
          RStep(t, [RNewCall("update_position", "up_set") EXCEPT
                        !.port = p, !.position = pos])
    /\ rops' = rops + 1
    /\ UNCHANGED <<_connections, recs, _listeners, _data_lock, clock>>

\* A position update that writes the position into every record.
UpdatePositionSetAll(t) ==
    LET r == rthr[t] IN
    /\ r.pc = "up_set"
    /\ _data_lock = NoHolder
    /\ UNCHANGED <<_connections, _listeners, _data_lock, clock, rops>>
    /\ recs' = [x \in 1..Len(recs) |-> [recs[x] EXCEPT !.position = r.position]]
    /\ RStep(t, Notify(r, Contents, Contents'))

\* with self._data_lock: if port in self._connections:
\*     self._connections[port]['position'] = position
UpdatePositionSet(t) ==
    LET r == rthr[t] IN
    /\ r.pc = "up_set"
    /\ _data_lock = NoHolder
    /\ UNCHANGED <<_connections, _listeners, _data_lock, clock, rops>>
    /\ recs' = IF r.port \in DOMAIN _connections
               THEN [recs EXCEPT ![_connections[r.port]].position = r.position]
               ELSE recs
    /\ RStep(t, Notify(r, Contents, Contents'))

\* ------------------------------------------------------ update_last_command
CallUpdateLastCommand(t) ==
    /\ RCallable(t)
    /\ \E p \in UpdatePorts, c \in Commands :
          RStep(t, [RNewCall("update_last_command", "lc_set") EXCEPT
                        !.port = p, !.command = c])
    /\ rops' = rops + 1
    /\ UNCHANGED <<_connections, recs, _listeners, _data_lock, clock>>

\* The call returns at the end of its locked block (line 115): the call
\* makes no notification.
Done(r, before, after) ==
    RReturn([r EXCEPT !.locked = TRUE, !.before = before, !.after = after], "None")

\* with self._data_lock: if port in self._connections:
\*     self._connections[port]['last_command'] = command
\* and the lock stays held for the second store.
UpdateLastCommandSet(t) ==
    LET r == rthr[t] IN
    /\ r.pc = "lc_set"
    /\ _data_lock = NoHolder
    /\ IF r.port \notin DOMAIN _connections
       THEN /\ RStep(t, Done(r, Contents, Contents))
            /\ UNCHANGED <<recs, _data_lock>>
       ELSE /\ recs' = [recs EXCEPT ![_connections[r.port]].last_command = r.command]
            /\ _data_lock' = t
            /\ RStep(t, [r EXCEPT !.pc = "lc_stamp", !.before = Contents])
    /\ UNCHANGED <<_connections, _listeners, clock, rops>>

\* self._connections[port]['last_command_at'] = datetime.now().isoformat()
UpdateLastCommandStamp(t) ==
    LET r == rthr[t] IN
    /\ r.pc = "lc_stamp"
    /\ _data_lock = t
    /\ UNCHANGED <<_connections, _listeners, rops>>
    /\ recs' = [recs EXCEPT ![_connections[r.port]].last_command_at = <<clock>>]
    /\ clock' = clock + 1
    /\ _data_lock' = NoHolder
    /\ RStep(t, Done(r, r.before, Contents'))

\* ------------------------------------- get_all_connections, get_connection
CallGetAll(t) ==
    /\ RCallable(t)
    /\ RStep(t, RNewCall("get_all", "ga_copy"))
    /\ rops' = rops + 1
    /\ UNCHANGED <<_connections, recs, _listeners, _data_lock, clock>>

\* with self._data_lock: return dict(self._connections): a new dictionary
\* with the same keys, holding the same record objects.
GetAllCopy(t) ==
    LET r == rthr[t] IN
    /\ r.pc = "ga_copy"
    /\ _data_lock = NoHolder
    /\ RStep(t, RReturn([r EXCEPT !.snap = _connections], "dict"))
    /\ UNCHANGED <<_connections, recs, _listeners, _data_lock, clock, rops>>

CallGetConnection(t) ==
    /\ RCallable(t)
    /\ \E p \in UpdatePorts :
          RStep(t, [RNewCall("get", "gc_get") EXCEPT !.port = p])
    /\ rops' = rops + 1
    /\ UNCHANGED <<_connections, recs, _listeners, _data_lock, clock>>

\* with self._data_lock: return self._connections.get(port): the record
\* object itself, or None.
GetConnectionGet(t) ==
    LET r == rthr[t] IN
    /\ r.pc = "gc_get"
    /\ _data_lock = NoHolder
    /\ IF r.port \in DOMAIN _connections
       THEN RStep(t, RReturn([r EXCEPT !.rec = _connections[r.port]], "record"))
       ELSE RStep(t, RReturn(r, "None"))
    /\ UNCHANGED <<_connections, recs, _listeners, _data_lock, clock, rops>>

\* -------------------------------------------- add_listener, remove_listener
\* x in self._listeners
InList(x) == \E j \in 1..Len(_listeners) : _listeners[j] = x

\* list.remove(x): the list without the first element equal to x.
ListRemove(l, x) ==
    LET j == CHOOSE k \in 1..Len(l) : l[k] = x /\ \A m \in 1..(k - 1) : l[m] # x
    IN SubSeq(l, 1, j - 1) \o SubSeq(l, j + 1, Len(l))

CallAddListener(t) ==
    /\ RCallable(t)
    /\ \E cb \in Listeners :
          RStep(t, [RNewCall("add_listener", "al_check") EXCEPT !.callback = cb])
    /\ rops' = rops + 1
    /\ UNCHANGED <<_connections, recs, _listeners, _data_lock, clock>>

\* if callback not in self._listeners:
AddListenerCheck(t) ==
    LET r == rthr[t] IN
    /\ r.pc = "al_check"
    /\ IF InList(r.callback)
       THEN RStep(t, RReturn(r, "None"))
       ELSE RStep(t, [r EXCEPT !.pc = "al_append"])
    /\ UNCHANGED <<_connections, recs, _listeners, _data_lock, clock, rops>>

\* self._listeners.append(callback)
AddListenerAppend(t) ==
    LET r == rthr[t] IN
    /\ r.pc = "al_append"
    /\ _listeners' = Append(_listeners, r.callback)
    /\ LStep(t, RReturn(r, "None"))
    /\ UNCHANGED <<_connections, recs, _data_lock, clock, rops>>

CallRemoveListener(t) ==
    /\ RCallable(t)
    /\ \E cb \in Listeners :
          RStep(t, [RNewCall("remove_listener", "rl_check") EXCEPT !.callback = cb])
    /\ rops' = rops + 1
    /\ UNCHANGED <<_connections, recs, _listeners, _data_lock, clock>>

\* if callback in self._listeners:
RemoveListenerCheck(t) ==
    LET r == rthr[t] IN
    /\ r.pc = "rl_check"
    /\ IF InList(r.callback)
       THEN RStep(t, [r EXCEPT !.pc = "rl_remove"])
       ELSE RStep(t, RReturn(r, "None"))
    /\ UNCHANGED <<_connections, recs, _listeners, _data_lock, clock, rops>>

\* self._listeners.remove(callback): ValueError when the callback is not in
\* the list any more.
RemoveListenerRemove(t) ==
    LET r == rthr[t] IN
    /\ r.pc = "rl_remove"
    /\ IF InList(r.callback)
       THEN /\ _listeners' = ListRemove(_listeners, r.callback)
            /\ LStep(t, RReturn(r, "None"))
       ELSE /\ UNCHANGED _listeners
            /\ RStep(t, RReturn(r, "raise"))
    /\ UNCHANGED <<_connections, recs, _data_lock, clock, rops>>

\* ------------------------------------------------------ ConnectionManager()
CallConstruct(t) ==
    /\ RCallable(t)
    /\ CStep(t, RNewCall("construct", "nw_check"))
    /\ rops' = rops + 1
    /\ UNCHANGED <<_connections, recs, _listeners, _data_lock, clock, clsVars>>

\* __new__ (lines 18-24), one step per access to the class attributes:
\*   nw_check  if cls._instance is None:      (else: return cls._instance)
\*   nw_lock   with cls._lock: if cls._instance is None:
\*                 cls._instance = super().__new__(cls)
\*   nw_flag       cls._instance._initialized = False
\*   nw_ret    return cls._instance
ConstructorNew(t) ==
    LET r == rthr[t] IN
    /\ r.pc \in {"nw_check", "nw_lock", "nw_flag", "nw_ret"}
    /\ UNCHANGED <<_connections, recs, _listeners, _data_lock, clock, rops>>
    /\ IF r.pc = "nw_check"
       THEN /\ UNCHANGED clsVars
            /\ CStep(t, IF _instance = NoInstance
                        THEN [r EXCEPT !.pc = "nw_lock"]
                        ELSE [r EXCEPT !.pc = "in_check", !.obj = _instance])
       ELSE IF r.pc = "nw_lock"
       THEN /\ _lock = NoHolder
            /\ UNCHANGED _initialized
            /\ IF _instance = NoInstance
               THEN /\ _instance' = TheInstance
                    /\ _lock' = t
                    /\ CStep(t, [r EXCEPT !.pc = "nw_flag"])
               ELSE /\ UNCHANGED <<_instance, _lock>>
                    /\ CStep(t, [r EXCEPT !.pc = "nw_ret"])
       ELSE IF r.pc = "nw_flag"
       THEN /\ _initialized' = "False"
            /\ _lock' = NoHolder
            /\ UNCHANGED _instance
            /\ CStep(t, [r EXCEPT !.pc = "nw_ret"])
       ELSE /\ UNCHANGED clsVars
            /\ CStep(t, [r EXCEPT !.pc = "in_check", !.obj = _instance])

\* An __init__ without the guard of lines 27-28.
ConstructorInitNoGuard(t) ==
    LET r == rthr[t] IN
    /\ r.pc \in {"in_check", "in_flag", "in_conn", "in_list", "in_lock"}
    /\ UNCHANGED <<recs, clock, rops, _instance, _lock>>
    /\ IF r.pc = "in_check"
       THEN /\ UNCHANGED <<_initialized, _connections, _listeners, _data_lock>>
            /\ CStep(t, [r EXCEPT !.pc = "in_flag"])
       ELSE IF r.pc = "in_flag"
       THEN /\ _initialized' = "True"
            /\ UNCHANGED <<_connections, _listeners, _data_lock>>
            /\ CStep(t, [r EXCEPT !.pc = "in_conn", !.reinit = TRUE])
       ELSE IF r.pc = "in_conn"
       THEN /\ _connections' = EmptyMap
            /\ UNCHANGED <<_initialized, _listeners, _data_lock>>
            /\ CStep(t, [r EXCEPT !.pc = "in_list"])
       ELSE IF r.pc = "in_list"
       THEN /\ _listeners' = <<>>
            /\ UNCHANGED <<_initialized, _connections, _data_lock>>
            /\ CStep(t, [r EXCEPT !.pc = "in_lock"])
       ELSE /\ _data_lock' = NoHolder
            /\ UNCHANGED <<_initialized, _connections, _listeners>>
            /\ CStep(t, RReturn(r, "instance"))

\* __init__ (lines 26-35), one step per access to the object's attributes:
\*   in_check  if self._initialized: return   (AttributeError when absent)
\*   in_flag   self._initialized = True
\*   in_conn   self._connections = {}
\*   in_list   self._listeners = []
\*   in_lock   self._data_lock = threading.Lock()
ConstructorInit(t) ==
    LET r == rthr[t] IN
    /\ r.pc \in {"in_check", "in_flag", "in_conn", "in_list", "in_lock"}
    /\ UNCHANGED <<recs, clock, rops, _instance, _lock>>
    /\ IF r.pc = "in_check"
       THEN /\ UNCHANGED <<_initialized, _connections, _listeners, _data_lock>>
            /\ CStep(t, IF _initialized = "True" THEN RReturn(r, "instance")
                        ELSE IF _initialized = "False" THEN [r EXCEPT !.pc = "in_flag"]
                        ELSE RReturn(r, "raise"))
       ELSE IF r.pc = "in_flag"
       THEN /\ _initialized' = "True"
            /\ UNCHANGED <<_connections, _listeners, _data_lock>>
            /\ CStep(t, [r EXCEPT !.pc = "in_conn", !.reinit = TRUE])
       ELSE IF r.pc = "in_conn"
       THEN /\ _connections' = EmptyMap
            /\ UNCHANGED <<_initialized, _listeners, _data_lock>>
            /\ CStep(t, [r EXCEPT !.pc = "in_list"])
       ELSE IF r.pc = "in_list"
       THEN /\ _listeners' = <<>>
            /\ UNCHANGED <<_initialized, _connections, _data_lock>>
            /\ CStep(t, [r EXCEPT !.pc = "in_lock"])
       ELSE /\ _data_lock' = NoHolder
            /\ UNCHANGED <<_initialized, _connections, _listeners>>
            /\ CStep(t, RReturn(r, "instance"))

\* --------------------------------------------- specification of the registry
NextRegistry ==
    \E t \in Threads :
        \/ CallRegister(t)
        \/ RegisterStore(t)
        \/ CallUnregister(t)
        \/ UnregisterDelete(t)
        \/ CallUpdateStatus(t)
        \/ UpdateStatusSet(t)
        \/ UpdateStatusStamp(t)
        \/ CallUpdatePosition(t)
        \/ UpdatePositionSet(t)
        \/ CallUpdateLastCommand(t)
        \/ UpdateLastCommandSet(t)
        \/ UpdateLastCommandStamp(t)
        \/ CallGetAll(t)
        \/ GetAllCopy(t)
        \/ CallGetConnection(t)
        \/ GetConnectionGet(t)
        \/ CallAddListener(t)
        \/ AddListenerCheck(t)
        \/ AddListenerAppend(t)
        \/ CallRemoveListener(t)
        \/ RemoveListenerCheck(t)
        \/ RemoveListenerRemove(t)
        \/ NotifyNext(t)
        \/ NotifySnapshot(t)
        \/ ListenerReturns(t)
        \/ ListenerRaises(t)
        \/ CallConstruct(t)
        \/ ConstructorNew(t)
        \/ ConstructorInit(t)

\* The registry of a process whose link is not in use.
InitRegistryAlone ==
    /\ InitFresh
    /\ thr = [t \in Threads |-> IdleThread]
    /\ ops = 0
    /\ InitRegistry
    /\ mon = MonitorOff

SpecRegistry == InitRegistryAlone /\ [][NextRegistry]_vars

TypeOKRegistry ==
    /\ DOMAIN _connections \subseteq RegPorts
    /\ \A p \in DOMAIN _connections :
          _connections[p] \in 1..Len(recs) /\ recs[_connections[p]].port = p
    /\ \A j \in 1..Len(_listeners) : _listeners[j] \in Listeners
    /\ _data_lock \in {NoHolder} \cup Threads
    /\ (_data_lock # NoHolder => rthr[_data_lock].pc \in {"us_stamp", "lc_stamp"})
    /\ rops \in 0..MaxRegOps
    /\ Len(recs) <= rops
    /\ _instance \in {NoInstance, TheInstance}
    /\ _initialized \in {"absent", "False", "True"}
    /\ _lock \in {NoHolder} \cup Threads
    /\ clock <= rops + 1

\* The registry when two callbacks have been added, one after the other,
\* and nothing else has been called.
InitListening ==
    /\ InitFresh
    /\ thr = [t \in Threads |-> IdleThread]
    /\ ops = 0
    /\ _instance = TheInstance
    /\ _initialized = "True"
    /\ _lock = NoHolder
    /\ _connections = EmptyMap
    /\ recs = <<>>
    /\ _listeners = <<"l_ok", "l_raise">>
    /\ _data_lock = NoHolder
    /\ clock = 1
    /\ rthr = [t \in Threads |-> IdleCaller]
    /\ rops = 0
    /\ mon = MonitorOff

SpecListeners == InitListening /\ [][NextRegistry]_vars

\* ================================================================= monitor
\* motion_control/assetto_physics.py: AssettoPhysics, one thread running
\* monitor_gear_changes() or start_monitoring().  Every read of the
\* telemetry (get_physics_data) returns whatever the simulator holds at
\* that moment, so every read draws a sample.

\* A step of the monitor; the link and the registry are left alone.
MStep(m) ==
    /\ mon' = m
    /\ UNCHANGED <<linkVars, regVars, clsVars>>

\* abs(x)
Abs(x) == IF x < 0 THEN 0 - x ELSE x

\* get_gear_change(), lines 253-277, for a gear that is not None: the
\* dictionary it returns.  previous is self.previous_gear, <<>> for None;
\* change_type is "none" for None.
GearChangeUnsigned(previous, current_gear) ==
    LET gear_changed == previous # <<>> /\ previous[1] # current_gear
        change_direction == IF gear_changed THEN current_gear - previous[1] ELSE 0
    IN  [current_gear |-> current_gear,
         previous_gear |-> previous,
         gear_changed |-> gear_changed,
         change_type |-> IF change_direction # 0 THEN "up" ELSE "none",
         change_direction |-> change_direction]
GearChange(previous, current_gear) ==
    LET gear_changed == previous # <<>> /\ previous[1] # current_gear
        change_direction == IF gear_changed THEN current_gear - previous[1] ELSE 0
    IN  [current_gear |-> current_gear,
         previous_gear |-> previous,
         gear_changed |-> gear_changed,
         change_type |-> IF change_direction > 0 THEN "up"
                         ELSE IF change_direction < 0 THEN "down" ELSE "none",
         change_direction |-> change_direction]

\* get_acceleration_factor(), lines 201-230, for an accG that is not None:
\* the dictionary it returns (x and y are copied and not used).  previous is
\* self.previous_z_accel, <<>> for None; z and change are in hundredths.
AccelerationFactorInclusive(previous, z) ==
    LET accel_change == IF previous # <<>> THEN Abs(z - previous[1]) ELSE 0
    IN  [z |-> z,
         factor |-> IF previous # <<>> THEN accel_change * FactorScale ELSE 0,
         change |-> accel_change,
         status |-> IF previous # <<>> /\ accel_change >= AbruptThreshold
                        THEN "ABRUPT!"
                    ELSE IF previous # <<>> /\ accel_change >= ModerateThreshold
                        THEN "Moderate"
                    ELSE "Normal"]
AccelerationFactor(previous, z) ==
    LET accel_change == IF previous # <<>> THEN Abs(z - previous[1]) ELSE 0
    IN  [z |-> z,
         factor |-> IF previous # <<>> THEN accel_change * FactorScale ELSE 0,
         change |-> accel_change,
         status |-> IF previous # <<>> /\ accel_change > AbruptThreshold
                        THEN "ABRUPT!"
                    ELSE IF previous # <<>> /\ accel_change > ModerateThreshold
                        THEN "Moderate"
                    ELSE "Normal"]

\* The locals and the record of a tick, at the start of the tick.
NewTick(m) ==
    [m EXCEPT !.gear_data = <<>>, !.accel_data = <<>>, !.event = "none",
              !.args = <<>>, !.sent = "none", !.tick = @ + 1, !.sample = <<>>,
              !.last = m.sample,
              !.seen = IF m.sample # <<>> /\ m.sample[1].gear # <<>>
                       THEN m.sample[1].gear ELSE @,
              !.prev_used = <<>>, !.steady = TRUE, !.last_sent = m.sent]

\* monitor_gear_changes() is called: lines 281-284, up to the first tick.
CallMonitorGearChanges ==
    /\ mon.pc = "off"
    /\ MStep([NewTick(mon) EXCEPT !.pc = "m_gear"])

\* gear_data = self.get_gear_change(), line 285 with lines 243-277, and the
\* test of line 287.  A telemetry without gear returns None and leaves
\* previous_gear alone; otherwise previous_gear becomes the gear read.
GetGearChange ==
    /\ mon.pc = "m_gear"
    /\ \E s \in GearSamples :
          LET data == IF s.gear = <<>> THEN <<>>
                      ELSE <<GearChange(mon.previous_gear, s.gear[1])>>
          IN  MStep([mon EXCEPT
                  !.sample = <<s>>,
                  !.gear_data = data,
                  !.previous_gear = IF s.gear = <<>> THEN @ ELSE s.gear,
                  !.pc = IF data # <<>> /\ data[1].gear_changed
                         THEN "m_accel" ELSE "m_sleep"])

\* accel_data = self.get_acceleration_factor(), line 289 with lines 190-230,
\* the log of the gear change (line 294) and the test of line 297.  The call
\* reads the telemetry again.  A telemetry without accG returns None and
\* leaves previous_z_accel alone; otherwise previous_z_accel becomes the
\* acceleration read.
GetAccelerationFactor ==
    /\ mon.pc = "m_accel"
    /\ \E a \in AccGs :
          LET data == IF a = <<>> THEN <<>>
                      ELSE <<AccelerationFactor(mon.previous_z_accel, a[1])>>
          IN  MStep([mon EXCEPT
                  !.accel_data = data,
                  !.prev_used = mon.previous_z_accel,
                  !.previous_z_accel = IF a = <<>> THEN @ ELSE a,
                  !.steady = (a = mon.sample[1].accG),
                  !.event = "GearChanged",
                  !.pc = IF /\ mon.gear_data[1].change_type = "up"
                            /\ data # <<>>
                            /\ data[1].status = "ABRUPT!"
                         THEN "m_send" ELSE "m_sleep"])

\* self.arduino_controller.send_command(speed=100, angle=105), line 299.
\* Its result is dropped.  An exception leaves the while loop: the try of
\* line 283 is around the loop, and its handler (lines 306-307) logs and
\* returns.
Dispatch ==
    /\ mon.pc = "m_send"
    /\ \E res \in SendOutcomes :
          MStep([mon EXCEPT !.args = <<DispatchSpeed, DispatchAngle>>,
                            !.sent = res,
                            !.pc = IF res = "raise" THEN "m_done" ELSE "m_sleep"])

\* time.sleep(0.05), line 304, and back to line 284 for the next tick.
Sleep ==
    /\ mon.pc = "m_sleep"
    /\ mon.tick < MaxTicks
    /\ MStep([NewTick(mon) EXCEPT !.pc = "m_gear"])

\* start_monitoring() is called: lines 60-63, up to the first tick.
CallStartMonitoring ==
    /\ mon.pc = "off"
    /\ MStep([NewTick(mon) EXCEPT !.pc = "d_dump"])

\* One tick of start_monitoring, lines 65-67: the screen is cleared, the
\* time and the telemetry are printed.  Nothing is compared with the tick
\* before, nothing is emitted and nothing is sent.
DumpPhysicsOnce ==
    /\ mon.pc = "d_dump"
    /\ \E s \in DumpSamples :
          MStep([mon EXCEPT !.sample = <<s>>, !.pc = "d_sleep"])

\* time.sleep(interval), line 68, and back to line 64.
DumpSleep ==
    /\ mon.pc = "d_sleep"
    /\ mon.tick < MaxTicks
    /\ MStep([NewTick(mon) EXCEPT !.pc = "d_dump"])

\* The loop is cancelled from outside: KeyboardInterrupt (lines 69-70), or
\* the end of the process for the daemon thread.
Cancel ==
    /\ mon.pc \in {"m_gear", "m_sleep", "d_dump", "d_sleep"}
    /\ MStep([mon EXCEPT !.pc = "cancelled"])

\* --------------------------------------------- specification of the monitor
NextMonitor ==
    \/ CallMonitorGearChanges
    \/ GetGearChange
    \/ GetAccelerationFactor
    \/ Dispatch
    \/ Sleep
    \/ CallStartMonitoring
    \/ DumpPhysicsOnce
    \/ DumpSleep
    \/ Cancel

InitMonitor ==
    /\ InitFresh
    /\ thr = [t \in Threads |-> IdleThread]
    /\ ops = 0
    /\ InitRegistry
    /\ mon = MonitorOff

SpecMonitor == InitMonitor /\ [][NextMonitor]_vars

TypeOKMonitor ==
    /\ mon.pc \in {"off", "m_gear", "m_accel", "m_send", "m_sleep", "m_done",
                   "d_dump", "d_sleep", "cancelled"}
    /\ mon.previous_gear \in Gears
    /\ mon.previous_z_accel \in AccGs
    /\ mon.tick \in 0..MaxTicks
    /\ mon.sent \in {"none"} \cup SendOutcomes
    /\ mon.event \in {"none", "GearChanged"}
    /\ mon.args \in {<<>>, <<DispatchSpeed, DispatchAngle>>}

\* ================================================================== claims
\* The thread t has returned from a call of operation name.
Returned(t, name) == thr[t].pc = "idle" /\ thr[t].op = name

\* The thread t is between the start and the return of a command or read.
InTransfer(t) == thr[t].pc # "idle" /\ thr[t].op \in {"send", "raw", "read"}

DigitChars == {"0", "1", "2", "3", "4", "5", "6", "7", "8", "9"}

DigitVal(ch) == CHOOSE v \in 0..9 : Digit(v) = ch

RECURSIVE NumVal(_)
NumVal(d) == IF d = <<>> THEN 0
             ELSE 10 * NumVal(SubSeq(d, 1, Len(d) - 1)) + DigitVal(d[Len(d)])

\* d is the canonical decimal of a number in 0..max.
IsNum(d, max) ==
    /\ Len(d) >= 1
    /\ \A j \in 1..Len(d) : d[j] \in DigitChars
    /\ (Len(d) > 1 => d[1] # "0")
    /\ NumVal(d) <= max

\* f (without its newline) is "<speed>,<angle>" with both values in range,
\* or a raw command.
IsFrame(f) ==
    \/ \E i \in 2..(Len(f) - 1) :
          /\ f[i] = ","
          /\ IsNum(SubSeq(f, 1, i - 1), 255)
          /\ IsNum(SubSeq(f, i + 1, Len(f)), 180)
    \/ f \in {<<"f">>, <<"b">>}

RECURSIVE WholeCommands(_)
\* w is a concatenation of newline-terminated frames.
WholeCommands(w) ==
    IF w = <<>> THEN TRUE
    ELSE /\ \E n \in 1..Len(w) : w[n] = "\n"
         /\ LET n == CHOOSE m \in 1..Len(w) :
                        w[m] = "\n" /\ \A j \in 1..(m - 1) : w[j] # "\n"
            IN IsFrame(SubSeq(w, 1, n - 1)) /\ WholeCommands(SubSeq(w, n + 1, Len(w)))

\* C1: a send_command on a connected link whose write does not fail succeeds
\* iff 0<=speed<=255 and 0<=angle<=180; any other input fails and the call
\* writes no byte.
C1_SendValidates ==
    \A t \in Threads : Returned(t, "send") =>
        LET r == thr[t]
            valid == 0 <= r.speed /\ r.speed <= 255 /\ 0 <= r.angle /\ r.angle <= 180
        IN /\ (r.ret = "True" => valid)
           /\ (~valid => r.ret # "True" /\ r.wrote = <<>>)
           /\ (~valid /\ r.chk = "true" => r.ret = "False")
           /\ (valid /\ r.solo /\ r.chk = "true" /\ ~r.wfail
                  => r.ret = "True" /\ r.wrote # <<>>)

\* C1 witness: an out-of-range command has been rejected on a connected
\* link that has already transmitted a command.
C1_Witness ==
    \E t \in Threads :
        /\ Returned(t, "send") /\ thr[t].ret = "False" /\ thr[t].wrote = <<>>
        /\ thr[t].speed = 256 /\ thr[t].chk = "true" /\ thr[t].solo
        /\ connection # NoChannel /\ chans[connection].wire # <<>>

\* C2: the byte stream of every channel is a concatenation of whole
\* commands, also when send_command calls overlap, and each successful
\* send_command has written exactly one whole command.
C2_NoInterleaving ==
    /\ \A c \in 1..Len(chans) : WholeCommands(chans[c].wire)
    /\ \A t \in Threads : (Returned(t, "send") /\ thr[t].ret = "True") =>
          /\ thr[t].wrote # <<>>
          /\ WholeCommands(thr[t].wrote)
          /\ Cardinality({j \in 1..Len(thr[t].wrote) : thr[t].wrote[j] = "\n"}) = 1

\* C2 witness: two send_command calls are in progress at once on the same
\* link and both have written their command.
C2_Witness ==
    \E t, u \in Threads :
        /\ t # u
        /\ thr[t].op = "send" /\ thr[t].pc # "idle" /\ thr[t].wrote # <<>>
        /\ thr[u].op = "send" /\ thr[u].pc # "idle" /\ thr[u].wrote # <<>>
        /\ thr[t].wrote # thr[u].wrote
        /\ connection # NoChannel
        /\ Len(chans[connection].wire) = Len(thr[t].wrote) + Len(thr[u].wrote)

\* C3: send_command, send_raw_command and read_response exclude each other
\* on one link: never are two threads both between the start and the return
\* of one of them.
C3_MutualExclusion ==
    \A t, u \in Threads : (t # u) => ~(InTransfer(t) /\ InTransfer(u))

\* C4: a send_command whose is_connected() is false fails without writing
\* and without raising, whatever its arguments; and is_connected() is false
\* for a call that starts, undisturbed, on a link that is not connected.
C4_SendNotConnected ==
    \A t \in Threads : Returned(t, "send") =>
        LET r == thr[t] IN
        /\ (r.chk = "false" => r.ret = "False" /\ r.wrote = <<>>)
        /\ ((r.solo /\ ~(r.pre.flag /\ r.pre.open)) => r.chk = "false")

\* C4 witness: a send_command with valid arguments was refused while the
\* link's channel was open (the link was between opening and being marked
\* connected).
C4_Witness ==
    \E t \in Threads :
        /\ Returned(t, "send") /\ thr[t].chk = "false" /\ thr[t].ret = "False"
        /\ thr[t].speed = 255 /\ thr[t].angle = 0
        /\ thr[t].pre.open

\* C5: a disconnect() that runs undisturbed, whatever the link's state
\* before, returns normally, leaves the link disconnected with its fields
\* cleared, and closes a channel iff the link's channel was open before.
C5_DisconnectIdempotent ==
    \A t \in Threads : (Returned(t, "disconnect") /\ thr[t].solo) =>
        LET r == thr[t] IN
        /\ r.ret = "None"
        /\ ~is_connected_flag /\ connection = NoChannel /\ port = ""
        /\ ~IsConnectedNow
        /\ (r.closed <=> r.pre.open)
        /\ (r.pre.connection # NoChannel => ~chans[r.pre.connection].is_open)

\* C5 witness: a disconnect() has returned on a link that an earlier
\* disconnect() had already cleared, without closing anything.
C5_Witness ==
    \E t \in Threads :
        /\ Returned(t, "disconnect") /\ thr[t].solo /\ thr[t].ret = "None"
        /\ Len(chans) >= 1
        /\ thr[t].pre.connection = NoChannel /\ ~thr[t].pre.flag
        /\ ~thr[t].closed

\* C6: a connect() that fails returns failure and leaves the link as it was:
\* a link that was disconnected is still disconnected after the failed call.
C6_ConnectFailure ==
    \A t \in Threads :
        (Returned(t, "connect") /\ thr[t].ret = "False" /\ thr[t].solo) =>
            LET r == thr[t] IN
            /\ connection = r.pre.connection
            /\ port = r.pre.port
            /\ is_connected_flag = r.pre.flag
            /\ (~(r.pre.flag /\ r.pre.open) => ~IsConnectedNow)

\* C6 witness: a connect() to a named port has failed on a disconnected link.
C6_Witness ==
    \E t \in Threads :
        /\ Returned(t, "connect") /\ thr[t].ret = "False" /\ thr[t].solo
        /\ thr[t].portArg # ""
        /\ ~thr[t].pre.flag
        /\ ~IsConnectedNow

\* C7: no byte is written to a channel before the settle delay of the
\* connect() that opened it has completed.
C7_SettleBeforeTraffic ==
    \A c \in 1..Len(chans) : ~chans[c].settled => chans[c].wire = <<>>

\* C8: connect() on a connected link is rejected or closes the old channel
\* first: no channel opened by the link is open while the link does not
\* reference it.
C8_NoUnreferencedOpenChannel ==
    \A c \in 1..Len(chans) : chans[c].is_open => connection = c

\* C9: is_connected() is true iff the connected flag is set and the channel
\* is open; on a link whose channel was closed from outside, the next
\* operation finds the link not connected and fails without writing.
C9_IsConnected ==
    \A t \in Threads :
        (thr[t].op \in {"send", "raw", "read"} /\ thr[t].chk # "none" /\ thr[t].solo) =>
            LET r == thr[t] IN
            /\ r.chk # "raise"
            /\ (r.chk = "true" <=> (r.pre.flag /\ r.pre.open))
            /\ (r.chk = "false" =>
                   /\ r.pc = "idle"
                   /\ r.ret = (IF r.op = "read" THEN "None" ELSE "False")
                   /\ r.wrote = <<>>)

\* C9 witness: a send_command with valid arguments has failed without
\* writing on a link whose flag is set and whose channel was closed from
\* outside.
C9_Witness ==
    \E t \in Threads :
        /\ Returned(t, "send") /\ thr[t].solo
        /\ thr[t].speed = 0 /\ thr[t].angle = 180
        /\ thr[t].pre.flag /\ thr[t].pre.connection # NoChannel /\ ~thr[t].pre.open
        /\ thr[t].chk = "false" /\ thr[t].ret = "False" /\ thr[t].wrote = <<>>

\* C10: a send_command whose channel write raises returns failure and
\* leaves the link's connected flag, channel reference and port unchanged.
C10_WriteFailureKeepsLink ==
    \A t \in Threads : (Returned(t, "send") /\ thr[t].wfail) =>
        LET r == thr[t] IN
        /\ r.ret = "False"
        /\ r.solo => /\ is_connected_flag = r.pre.flag
                     /\ connection = r.pre.connection
                     /\ port = r.pre.port

\* C10 witness: a write has failed on a connected link and the link still
\* reports connected.
C10_Witness ==
    \E t \in Threads :
        /\ Returned(t, "send") /\ thr[t].wfail /\ thr[t].solo
        /\ thr[t].pre.flag /\ thr[t].pre.open
        /\ IsConnectedNow

\* C11: a send_command whose bytes were written successfully returns
\* success, whatever the following response read does: a call that has
\* written and whose write did not fail returns True.
C11_WrittenMeansSuccess ==
    \A t \in Threads :
        (Returned(t, "send") /\ thr[t].wrote # <<>> /\ ~thr[t].wfail) =>
            thr[t].ret = "True"

\* The single-character tokens of the manual command protocol.
ManualTokens == {<<"f">>, <<"b">>}

\* C12: the manual command operation accepts only single-character tokens
\* of a closed set: any other input fails and writes nothing, and an
\* accepted token is written as exactly that one character, with no
\* terminator.
C12_ManualTokenOnly ==
    \A t \in Threads : Returned(t, "raw") =>
        LET r == thr[t] IN
        /\ (r.cmd \notin ManualTokens => r.ret = "False" /\ r.wrote = <<>>)
        /\ (r.ret = "True" => r.wrote = r.cmd)

\* C13: no operation of the link raises to its caller: every call of
\* connect, disconnect, send_command, send_raw_command and read_response
\* returns a result value.
C13_NoRaise ==
    \A t \in Threads : thr[t].pc = "idle" => thr[t].ret # "raise"

\* ------------------------------------------------------- registry claims
\* The locked block of t's call of operation name has run.
Applied(t, name) == rthr[t].op = name /\ rthr[t].locked

\* t's call of a registry operation has returned.
RReturned(t) == rthr[t].pc = "idle" /\ rthr[t].op # "none"

\* C14: there is one record per port, stored under its own port; after the
\* locked block of register_connection(port, motor_number) the registry has
\* the keys it had plus port, the other records are as they were, and the
\* record of port carries the call's motor_number, connected = True and a
\* connected_at later than every connected_at the registry held before.
C14_RegisterOverwrites ==
    /\ \A p \in DOMAIN _connections : recs[_connections[p]].port = p
    /\ \A t \in Threads : Applied(t, "register") =>
          LET r == rthr[t] IN
          /\ DOMAIN r.after = DOMAIN r.before \cup {r.port}
          /\ r.after[r.port].port = r.port
          /\ r.after[r.port].motor_number = r.motor_number
          /\ r.after[r.port].connected = TRUE
          /\ \A p \in DOMAIN r.before :
                r.after[r.port].connected_at > r.before[p].connected_at
          /\ \A p \in DOMAIN r.before \ {r.port} : r.after[p] = r.before[p]

\* C14 witness: a port that was registered with another motor number has
\* been registered again.
C14_Witness ==
    \E t \in Threads :
        /\ Applied(t, "register")
        /\ rthr[t].port \in DOMAIN rthr[t].before
        /\ rthr[t].before[rthr[t].port].motor_number # rthr[t].motor_number
        /\ rthr[t].after[rthr[t].port].motor_number = rthr[t].motor_number
        /\ Cardinality(DOMAIN rthr[t].after) = Cardinality(DOMAIN rthr[t].before)

\* The record objects a caller holds: those of the dictionary that
\* get_all_connections() returned to the call (or passed to the listener
\* the thread is in) and the one get_connection() returned.
HeldRecords(q) ==
    {q.snap[p] : p \in DOMAIN q.snap} \cup (IF q.rec = NoRecord THEN {} ELSE {q.rec})

\* A record with a command and no time of that command.
Torn(rec) == rec.last_command # "None" /\ rec.last_command_at = <<>>

\* C15: what get_all_connections() or get_connection() returned is a
\* point-in-time copy: no step changes a record a caller holds, and no
\* caller holds a record to which half of an update has been applied.
C15_SnapshotIsCopy ==
    [][\A t \in Threads : \A x \in HeldRecords(rthr[t]) :
          /\ recs'[x] = recs[x]
          /\ ~Torn(recs[x])]_vars

\* The operations that end with self._notify_listeners().
NotifyingOps == {"register", "unregister", "update_status", "update_position"}

\* C16: a listener that raises stops neither the notification nor the
\* call: the call does not raise, and when the listener list stayed as it
\* was during the call every listener of the list has been called, in
\* order, also after a listener raised.
C16_ListenerIsolation ==
    \A t \in Threads :
        LET r == rthr[t] IN
        /\ (r.raised => r.ret # "raise")
        /\ (RReturned(t) /\ r.op \in NotifyingOps /\ r.lstable) =>
              r.ret = "None" /\ r.called = _listeners

\* C16 witness: a call has returned normally after its first listener
\* raised and its second listener was called.
C16_Witness ==
    \E t \in Threads :
        /\ RReturned(t) /\ rthr[t].raised /\ rthr[t].lstable
        /\ rthr[t].ret = "None"
        /\ rthr[t].called = <<"l_raise", "l_ok">>

\* C17: a thread that is inside a listener does not hold the registry's
\* lock: the other thread's locked blocks are not kept waiting by it.
C17_ListenerOutsideLock ==
    \A t \in Threads : rthr[t].pc = "in_cb" =>
        /\ _data_lock # t
        /\ \A u \in Threads \ {t} : _data_lock \in {NoHolder, u}

\* C17 witness: while one thread is inside a listener the other thread is
\* inside a locked block.
C17_Witness ==
    \E t, u \in Threads :
        /\ t # u
        /\ rthr[t].pc = "in_cb"
        /\ _data_lock = u
        /\ rthr[u].pc \in {"us_stamp", "lc_stamp"}

\* C18: a call of register, unregister, update_connection_status,
\* update_motor_position or update_last_command that changed the registry's
\* contents has, when it returns, called every listener of the list (the
\* list having stayed as it was during the call).
C18_ChangeNotifies ==
    \A t \in Threads :
        LET r == rthr[t] IN
        (RReturned(t) /\ r.locked /\ r.after # r.before /\ r.lstable) =>
            r.called = _listeners

\* C19: after the locked block of unregister_connection(port) the registry
\* holds the records it held before except the one of port; for a port that
\* was absent the contents are the same as before.
C19_UnregisterRemoves ==
    \A t \in Threads : Applied(t, "unregister") =>
        LET r == rthr[t] IN
        /\ DOMAIN r.after = DOMAIN r.before \ {r.port}
        /\ \A p \in DOMAIN r.after : r.after[p] = r.before[p]
        /\ (r.port \notin DOMAIN r.before => r.after = r.before)

\* C19 witness: a port that is absent has been unregistered from a registry
\* that holds a record of another port.
C19_Witness ==
    \E t \in Threads :
        /\ Applied(t, "unregister")
        /\ rthr[t].port \notin DOMAIN rthr[t].before
        /\ DOMAIN rthr[t].before # {}
        /\ rthr[t].after = rthr[t].before

\* C20: after the locked block of update_connection_status(port, connected)
\* on a present port the record's connected is the argument; a call with
\* connected = False that finds the record connected leaves a
\* disconnected_at that was not there before; a call with connected = True
\* leaves disconnected_at as it was.
C20_UpdateStatus ==
    \A t \in Threads :
        (Applied(t, "update_status") /\ rthr[t].port \in DOMAIN rthr[t].before) =>
            LET r == rthr[t]
                old == r.before[r.port]
                new == r.after[r.port]
            IN /\ new.connected = r.connected
               /\ ((~r.connected /\ old.connected) =>
                      new.disconnected_at # <<>> /\ new.disconnected_at # old.disconnected_at)
               /\ (r.connected => new.disconnected_at = old.disconnected_at)

\* C20 witness: a record that carries a disconnected_at has been set to
\* connected again.
C20_Witness ==
    \E t \in Threads :
        /\ Applied(t, "update_status") /\ rthr[t].connected
        /\ rthr[t].port \in DOMAIN rthr[t].before
        /\ ~rthr[t].before[rthr[t].port].connected
        /\ rthr[t].before[rthr[t].port].disconnected_at # <<>>
        /\ rthr[t].after[rthr[t].port].connected

\* C21: update_motor_position and update_last_command change only the
\* record of the given port: the keys stay as they were, every other record
\* stays as it was, the record of the port differs from what it was only in
\* position (update_motor_position) or in last_command and last_command_at
\* (update_last_command, which leaves a new last_command_at); for an absent
\* port the contents are as before and no record is created.
C21_UpdateFrame ==
    \A t \in Threads :
        LET r == rthr[t] IN
        (r.locked /\ r.op \in {"update_position", "update_last_command"}) =>
            /\ DOMAIN r.after = DOMAIN r.before
            /\ \A p \in DOMAIN r.before \ {r.port} : r.after[p] = r.before[p]
            /\ (r.port \notin DOMAIN r.before => r.after = r.before)
            /\ (r.port \in DOMAIN r.before /\ r.op = "update_position") =>
                  r.after[r.port] = [r.before[r.port] EXCEPT !.position = r.position]
            /\ (r.port \in DOMAIN r.before /\ r.op = "update_last_command") =>
                  /\ r.after[r.port].last_command = r.command
                  /\ r.after[r.port].last_command_at # <<>>
                  /\ r.after[r.port].last_command_at # r.before[r.port].last_command_at
                  /\ [r.after[r.port] EXCEPT !.last_command = "None", !.last_command_at = <<>>]
                       = [r.before[r.port] EXCEPT !.last_command = "None", !.last_command_at = <<>>]

\* C21 witness: the position of one port has been updated in a registry
\* that holds the record of another port, too.
C21_Witness ==
    \E t \in Threads :
        /\ Applied(t, "update_position")
        /\ rthr[t].port \in DOMAIN rthr[t].before
        /\ DOMAIN rthr[t].before # {rthr[t].port}
        /\ rthr[t].after[rthr[t].port].position = rthr[t].position
        /\ rthr[t].before[rthr[t].port].position # rthr[t].position

\* C22: one registry exists: the class always holds the one object, which
\* stays initialised; every ConnectionManager() returns that object, also
\* while another construction is in progress, and no construction goes past
\* the guard of __init__ to assign the object's connections, listeners or
\* lock again.
C22_Singleton ==
    /\ _instance = TheInstance
    /\ _initialized = "True"
    /\ \A t \in Threads : rthr[t].op = "construct" =>
          /\ ~rthr[t].reinit
          /\ rthr[t].ret \in {"pending", "instance"}
          /\ (rthr[t].pc \notin {"nw_check", "nw_lock", "nw_flag", "nw_ret"}
                 => rthr[t].obj = TheInstance)

\* C22 witness: a construction has returned the object while the other
\* thread is inside its own construction and the registry holds a record.
C22_Witness ==
    \E t, u \in Threads :
        /\ t # u
        /\ RReturned(t) /\ rthr[t].op = "construct" /\ rthr[t].obj = TheInstance
        /\ rthr[u].op = "construct" /\ rthr[u].pc = "in_check"
        /\ DOMAIN _connections # {}

\* -------------------------------------------------------- monitor claims
\* The tick of monitor_gear_changes has read the gear.
GearRead == mon.pc \in {"m_accel", "m_send", "m_sleep", "m_done"}

\* The tick of monitor_gear_changes has done all of its work.
TickEnd == mon.pc \in {"m_sleep", "m_done"}

\* |a - b|, written out
Distance(a, b) == IF a >= b THEN a - b ELSE b - a

\* The tick has an upshift event.
Upshift == mon.gear_data # <<>> /\ mon.gear_data[1].change_type = "up"

\* The acceleration read by the tick and the one read by the tick before
\* differ by more than 0.5.
TickToTickAbrupt ==
    /\ mon.last # <<>>
    /\ mon.last[1].accG # <<>>
    /\ mon.sample[1].accG # <<>>
    /\ Distance(mon.sample[1].accG[1], mon.last[1].accG[1]) > 50

\* C23: on every tick that reads a gear, a gear change is reported exactly
\* when an earlier tick read a gear and the last such gear differs from the
\* one read now; the report carries the earlier gear, the gear read and the
\* direction, "up" when the gear rose and "down" when it fell; a tick that
\* repeats the gear, or the first tick, reports no change; and after the
\* tick previous_gear is the gear read.  A tick without a gear reports
\* nothing and leaves previous_gear alone.
C23_GearEvents ==
    GearRead =>
        LET cur == mon.sample[1].gear
        IN  /\ (cur = <<>> => mon.gear_data = <<>> /\ mon.previous_gear = mon.seen)
            /\ (cur # <<>> =>
                  /\ mon.gear_data # <<>>
                  /\ mon.gear_data[1].gear_changed
                        <=> (mon.seen # <<>> /\ mon.seen # cur)
                  /\ (mon.gear_data[1].gear_changed =>
                        /\ mon.gear_data[1].previous_gear = mon.seen
                        /\ mon.gear_data[1].current_gear = cur[1]
                        /\ (mon.gear_data[1].change_type = "up"
                               <=> cur[1] > mon.seen[1])
                        /\ (mon.gear_data[1].change_type = "down"
                               <=> cur[1] < mon.seen[1]))
                  /\ (~mon.gear_data[1].gear_changed =>
                        mon.gear_data[1].change_type = "none")
                  /\ mon.previous_gear = cur)

\* C23 witness: the fourth tick reports the change from gear 3 down to
\* gear 2.
C23_Witness ==
    /\ GearRead
    /\ mon.tick = 4
    /\ mon.seen = <<3>>
    /\ mon.sample[1].gear = <<2>>
    /\ mon.gear_data # <<>>
    /\ mon.gear_data[1].gear_changed
    /\ mon.gear_data[1].change_type = "down"

\* C24: whenever get_acceleration_factor has returned a dictionary: with no
\* previous acceleration the status is Normal and the factor 0; with a
\* previous acceleration the change is |current - previous|, the factor is
\* ten times the change, and the status is ABRUPT exactly when the change
\* is above 0.5, Moderate exactly when it is above 0.2 and at most 0.5, and
\* Normal exactly when it is at most 0.2 (accelerations in hundredths).
C24_JerkClassification ==
    mon.accel_data # <<>> =>
        LET d == mon.accel_data[1]
            p == mon.prev_used
        IN  /\ (p = <<>> => d.status = "Normal" /\ d.factor = 0)
            /\ (p # <<>> =>
                  LET jerk == Distance(d.z, p[1])
                  IN  /\ d.change = jerk
                      /\ d.factor = jerk * 10
                      /\ (d.status = "ABRUPT!" <=> jerk > 50)
                      /\ (d.status = "Moderate" <=> (jerk > 20 /\ jerk <= 50))
                      /\ (d.status = "Normal" <=> jerk <= 20))

\* C24 witness: a change of exactly 0.5 has been classified Moderate.
C24_Witness ==
    /\ mon.accel_data # <<>>
    /\ mon.prev_used # <<>>
    /\ Distance(mon.accel_data[1].z, mon.prev_used[1]) = 50
    /\ mon.accel_data[1].status = "Moderate"
    /\ mon.accel_data[1].factor = 500

\* C25: at the end of every tick of the gear loop that read an
\* acceleration, previous_z_accel is that acceleration; and the change that
\* a tick's get_acceleration_factor computed is the distance between the
\* tick's acceleration and the acceleration of the tick before.  (Ticks
\* whose two reads of the telemetry differ are left out.)
C25_EveryTickEvaluated ==
    /\ (TickEnd /\ mon.steady /\ mon.sample[1].accG # <<>>)
           => mon.previous_z_accel = mon.sample[1].accG
    /\ (/\ TickEnd /\ mon.steady /\ mon.accel_data # <<>>
        /\ mon.last # <<>> /\ mon.last[1].accG # <<>>)
           => mon.accel_data[1].change
                  = Distance(mon.accel_data[1].z, mon.last[1].accG[1])

\* C26: at the end of every tick of the gear loop, send_command(100, 105)
\* was called in the tick exactly when the tick has an upshift event and
\* the acceleration changed by more than 0.5 since the tick before.  (Ticks
\* whose two reads of the telemetry differ are left out.)
C26_DispatchIffUpshiftAbrupt ==
    (TickEnd /\ mon.steady) =>
        /\ (mon.sent # "none" <=> (Upshift /\ TickToTickAbrupt))
        /\ (mon.sent # "none" => mon.args = <<100, 105>>)

\* The dispatch of the code: send_command(100, 105) was called in the tick
\* exactly when the tick has an upshift event and the status that
\* get_acceleration_factor returned in the tick is ABRUPT.
DispatchIffComputedAbrupt ==
    TickEnd =>
        /\ (mon.sent # "none"
               <=> (/\ Upshift
                    /\ mon.accel_data # <<>>
                    /\ mon.accel_data[1].status = "ABRUPT!"))
        /\ (mon.sent # "none" <=> mon.args = <<100, 105>>)

\* C27: a tick whose send_command failed, by returning False or by raising,
\* goes on to the sleep before the next tick; and a tick that follows a
\* failed send and has no gear change sends nothing.
C27_FailedSendGoesOn ==
    /\ (mon.sent \in {"False", "raise"} => mon.pc = "m_sleep")
    /\ (/\ TickEnd
        /\ mon.last_sent \in {"False", "raise"}
        /\ ~(mon.gear_data # <<>> /\ mon.gear_data[1].gear_changed))
           => mon.sent = "none"

\* C28: the gear loop never ends by itself: monitor_gear_changes does not
\* return.
C28_NoNaturalTermination == mon.pc # "m_done"

\* C29: at the end of every tick of start_monitoring, PedalPressed was
\* emitted in the tick exactly when the gas of the tick before was at most
\* 0.1 and the gas of this tick is above 0.1.
C29_PedalEdge ==
    mon.pc = "d_sleep" =>
        (mon.event = "PedalPressed"
            <=> (/\ mon.last # <<>>
                 /\ mon.last[1].gas <= 10
                 /\ mon.sample[1].gas > 10))

\* ------------------------------------------------------- the command frame
\* The number of elements of w equal to ch.
Count(w, ch) == Cardinality({j \in 1..Len(w) : w[j] = ch})

\* C30: a send_command that has issued its write, or has returned True,
\* has issued one write only, and the bytes it handed to the channel are
\* the decimal digits of speed without sign or leading zero, one comma, the
\* decimal digits of angle, and one newline at the end; the channel has
\* received these bytes and nothing else.  The bytes decode to the pair
\* (speed, angle), so two different pairs never give the same bytes.
C30_FrameExact ==
    \A t \in Threads :
        (thr[t].op = "send" /\ (thr[t].inner \/ thr[t].ret = "True")) =>
            LET w == thr[t].wrote
            IN  /\ thr[t].k = 1
                /\ Len(w) >= 4
                /\ w[Len(w)] = "\n"
                /\ Count(w, "\n") = 1
                /\ Count(w, ",") = 1
                /\ \E i \in 2..(Len(w) - 2) :
                      /\ w[i] = ","
                      /\ IsNum(SubSeq(w, 1, i - 1), 255)
                      /\ NumVal(SubSeq(w, 1, i - 1)) = thr[t].speed
                      /\ IsNum(SubSeq(w, i + 1, Len(w) - 1), 180)
                      /\ NumVal(SubSeq(w, i + 1, Len(w) - 1)) = thr[t].angle
                /\ chans[1].wire = w

\* C30 witness: send_command(100, 105) has returned True after writing the
\* eight bytes "100,105\n".
C30_Witness ==
    /\ Returned("ws", "send")
    /\ thr["ws"].ret = "True"
    /\ thr["ws"].speed = 100
    /\ thr["ws"].angle = 105
    /\ thr["ws"].wrote = <<"1", "0", "0", ",", "1", "0", "5", "\n">>

\* ------------------------------------------------------ one sample per tick
\* C31: in every tick of the gear loop the acceleration that was evaluated
\* is the one of the sample the gear was read from: the tick's second read
\* of the telemetry returned what the first read returned.
C31_OneSample ==
    GearRead =>
        /\ mon.steady
        /\ (mon.accel_data # <<>> =>
               /\ mon.sample[1].accG # <<>>
               /\ mon.accel_data[1].z = mon.sample[1].accG[1])

\* ----------------------------------------------------------- link lifecycle
\* The thread t is inside, or has just returned from, a command or a read
\* that began on a link without channel (as disconnect() leaves it) and
\* during which nobody else has acted.
OnDisconnectedLink(t) ==
    /\ thr[t].op \in {"send", "raw", "read"}
    /\ thr[t].pre.connection = NoChannel
    /\ thr[t].solo

\* Such a call, once returned, has found the link not connected, has
\* returned False (None for a read) and has written nothing.
AfterDisconnectFails ==
    \A t \in Threads :
        (OnDisconnectedLink(t) /\ thr[t].pc = "idle") =>
            /\ thr[t].chk = "false"
            /\ thr[t].ret = (IF thr[t].op = "read" THEN "None" ELSE "False")
            /\ thr[t].wrote = <<>>

\* The step is one of a connect() in progress that does not fail.
ConnectStep ==
    \E t \in Threads :
        /\ thr[t].op = "connect"
        /\ thr[t].pc \in {"co_open", "co_port", "co_flag"}
        /\ thr'[t].pc # thr[t].pc
        /\ thr'[t].ret # "False"

\* C32: the link goes from not connected to connected only in a step of a
\* connect() that does not fail; and a send_command, send_raw_command or
\* read_response that begins on a link without channel and runs undisturbed
\* returns False or None, writes nothing and, in none of its steps, changes
\* any channel.
C32_Lifecycle ==
    [][ /\ (~IsConnectedNow /\ IsConnectedNow') => ConnectStep
        /\ AfterDisconnectFails'
        /\ \A t \in Threads :
              (OnDisconnectedLink(t) /\ thr'[t].pc # thr[t].pc) => chans' = chans
      ]_vars

\* C32 witness: after a disconnect() has closed the link's channel and
\* cleared the link, a send_command with valid arguments has returned False
\* without writing, and the link is not connected.
C32_Witness ==
    \E t \in Threads :
        /\ Returned(t, "send") /\ OnDisconnectedLink(t)
        /\ thr[t].speed = 0 /\ thr[t].angle = 180
        /\ thr[t].ret = "False" /\ thr[t].wrote = <<>>
        /\ Len(chans) = 1 /\ ~chans[1].is_open /\ chans[1].wire = <<>>
        /\ connection = NoChannel /\ ~is_connected_flag

\* ------------------------------------------------------- listener claims
\* The thread t is inside the last call its notification round makes to the
\* listener it is calling.
LastCallOfRound(t) ==
    /\ rthr[t].pc = "in_cb"
    /\ \A j \in (rthr[t].i + 1)..Len(_listeners) : _listeners[j] # rthr[t].listener

\* C33: when one thread is inside the last call of a listener of its round
\* and no other thread is inside a registry call, so that this is the last
\* notification the listener gets for the mutations made so far, the
\* snapshot handed to the listener is the registry's contents.
C33_LastSnapshotIsFinal ==
    \A t \in Threads :
        (LastCallOfRound(t) /\ \A u \in Threads \ {t} : rthr[u].pc = "idle")
            => rthr[t].snap = _connections

\* t's mutating call has returned from its notification round.
RoundDone(t) == RReturned(t) /\ rthr[t].op \in NotifyingOps /\ rthr[t].locked

\* The listener l has been called in t's round.
WasCalled(t, l) == \E j \in 1..Len(rthr[t].called) : rthr[t].called[j] = l

\* The listener l was in the list when t's locked block ended.
WasRegistered(t, l) == \E j \in 1..Len(rthr[t].ls0) : rthr[t].ls0[j] = l

\* C34: when the notification round of a mutation has ended, every listener
\* that was in the list when the mutation was made and has not left the
\* list since has been called in the round.
C34_RemovalSkipsNobody ==
    \A t \in Threads : RoundDone(t) =>
        \A l \in Listeners :
            (WasRegistered(t, l) /\ l \notin rthr[t].gone) => WasCalled(t, l)

\* ------------------------------------------------------------ the key set
\* The step is the locked block of t's call, which is at pc.
BlockStep(t, pc) == rthr[t].pc = pc /\ rthr'[t].pc # pc

\* C35: a step changes the set of ports of the registry only if it is the
\* locked block of a register_connection, which adds its port, or of an
\* unregister_connection, which removes its port; after the block of a
\* register_connection the port is present and after the block of an
\* unregister_connection it is absent.  No step of any other operation
\* changes the set, whether its port is present or not.
C35_KeysFrame ==
    [][ /\ (DOMAIN _connections' # DOMAIN _connections) =>
              \E t \in Threads :
                  \/ /\ BlockStep(t, "rc_store")
                     /\ DOMAIN _connections' = DOMAIN _connections \cup {rthr[t].port}
                  \/ /\ BlockStep(t, "ur_del")
                     /\ DOMAIN _connections' = DOMAIN _connections \ {rthr[t].port}
        /\ \A t \in Threads :
              /\ BlockStep(t, "rc_store") => rthr[t].port \in DOMAIN _connections'
              /\ BlockStep(t, "ur_del") => rthr[t].port \notin DOMAIN _connections'
      ]_vars

\* C35 witness: the locked block of an update_connection_status of an
\* absent port has run on a registry that holds another port, and the
\* registry holds the ports it held.
C35_Witness ==
    \E t \in Threads :
        /\ Applied(t, "update_status")
        /\ rthr[t].port \notin DOMAIN rthr[t].before
        /\ DOMAIN rthr[t].before # {}
        /\ DOMAIN rthr[t].after = DOMAIN rthr[t].before
        /\ DOMAIN _connections = DOMAIN rthr[t].before

\* ------------------------------------------------------- the listener list
\* C36: no callback is in the listener list twice; a remove_listener
\* returns without raising, and when nobody else changed the list during
\* the call the callback is not in the list afterwards; and a notification
\* round during which the list stayed as it was calls no listener twice.
C36_ListenerOnce ==
    /\ \A i, j \in 1..Len(_listeners) : i # j => _listeners[i] # _listeners[j]
    /\ \A t \in Threads :
          (RReturned(t) /\ rthr[t].op = "remove_listener") =>
              /\ rthr[t].ret = "None"
              /\ (rthr[t].lstable => ~InList(rthr[t].callback))
    /\ \A t \in Threads :
          (rthr[t].op \in NotifyingOps /\ rthr[t].lstable) =>
              \A i, j \in 1..Len(rthr[t].called) :
                  i # j => rthr[t].called[i] # rthr[t].called[j]

\* ------------------------------------------------------- the read timeout
\* The thread t is inside a read_response.
Reading(t) == thr[t].op = "read" /\ thr[t].pc # "idle"

\* C37: whenever no read_response is in progress, the link's channel has
\* the read timeout it was opened with.
C37_TimeoutRestored ==
    ((\A t \in Threads : ~Reading(t)) /\ connection # NoChannel)
        => chans[connection].timeout = DefaultTimeout

====
